---------------------------- MODULE Spec2Model ----------------------------
(***************************************************************************)
(* Job dispatch and conversational context of the Telegram front-end:      *)
(* the worker pool of fast_main.py draining an asyncio queue with          *)
(* retry/backoff, and the per-user context store of                        *)
(* conversation_manager.py (bounded history, topic keywords, resets).      *)
(*                                                                         *)
(* Texts are sequences of one-character strings, so that lower-casing,     *)
(* tokenising and phrase search are computed on the characters as the      *)
(* Python code computes them.                                              *)
(***************************************************************************)
EXTENDS Integers, Sequences, FiniteSets, TLC

---------------------------------------------------------------------------
(* Characters and texts                                                    *)

UpperCase ==
    << "A","B","C","D","E","F","G","H","I","J","K","L","M",
       "N","O","P","Q","R","S","T","U","V","W","X","Y","Z" >>

LowerCase ==
    << "a","b","c","d","e","f","g","h","i","j","k","l","m",
       "n","o","p","q","r","s","t","u","v","w","x","y","z" >>

Digits ==
    { "0","1","2","3","4","5","6","7","8","9" }

Range(s) ==
    { s[i] : i \in 1..Len(s) }

UpperLetters ==
    Range(UpperCase)

Letters ==
    Range(LowerCase) \cup Range(UpperCase)

WordChars ==
    Letters \cup Digits \cup { "_" }

\* str.lower() on the upper-case letters
LowerOf ==
    [c \in UpperLetters |-> LowerCase[CHOOSE k \in 1..26 : UpperCase[k] = c]]

\* str.lower() on one character
lower_char(c) ==
    IF c \in UpperLetters THEN LowerOf[c] ELSE c

\* str.lower()
lower(text) ==
    [i \in 1..Len(text) |-> lower_char(text[i])]

\* [a-zA-Z] of the regular expression
IsLetter(c) ==
    c \in Letters

\* \w of the regular expression: what \b separates from the rest
IsWordChar(c) ==
    c \in WordChars

\* "needle in haystack" on Python strings
Contains(haystack, needle) ==
    \E i \in 1..(Len(haystack) - Len(needle) + 1) :
        SubSeq(haystack, i, i + Len(needle) - 1) = needle

\* End of the maximal run of \w characters that starts at position i
RECURSIVE RunEnd(_, _)
RunEnd(text, i) ==
    IF i < Len(text) /\ IsWordChar(text[i + 1]) THEN RunEnd(text, i + 1) ELSE i

\* re.findall(r'\b[a-zA-Z]{3,}\b', text): a match starts and ends at a word
\* boundary, so it is a whole maximal \w-run made of letters only, of
\* length at least 3.  Matches are listed left to right.
RECURSIVE findall_words(_, _)
findall_words(text, i) ==
    IF i > Len(text) THEN << >>
    ELSE IF ~IsWordChar(text[i]) THEN findall_words(text, i + 1)
    ELSE LET e == RunEnd(text, i)
             run == SubSeq(text, i, e)
         IN  IF Len(run) >= 3 /\ \A k \in 1..Len(run) : IsLetter(run[k])
             THEN << run >> \o findall_words(text, e + 1)
             ELSE findall_words(text, e + 1)

stopwords ==
    { <<"t","h","e">>, <<"a">>, <<"a","n">>, <<"a","n","d">>, <<"o","r">>,
      <<"b","u","t">>, <<"i","n">>, <<"o","n">>, <<"a","t">>, <<"t","o">>,
      <<"f","o","r">>, <<"o","f">>, <<"w","i","t","h">>, <<"b","y">>,
      <<"f","r","o","m">>, <<"u","p">>, <<"a","b","o","u","t">>, <<"i","n","t","o">>,
      <<"t","h","r","o","u","g","h">>, <<"d","u","r","i","n","g">>,
      <<"b","e","f","o","r","e">>, <<"a","f","t","e","r">>, <<"a","b","o","v","e">>,
      <<"b","e","l","o","w">>, <<"b","e","t","w","e","e","n">>,
      <<"a","m","o","n","g">>, <<"i","s">>, <<"a","r","e">>, <<"w","a","s">>,
      <<"w","e","r","e">>, <<"b","e">>, <<"b","e","e","n">>, <<"b","e","i","n","g">>,
      <<"h","a","v","e">>, <<"h","a","s">>, <<"h","a","d">>, <<"d","o">>,
      <<"d","o","e","s">>, <<"d","i","d">>, <<"w","i","l","l">>,
      <<"w","o","u","l","d">>, <<"c","o","u","l","d">>, <<"s","h","o","u","l","d">>,
      <<"m","a","y">>, <<"m","i","g","h","t">>, <<"m","u","s","t">>, <<"c","a","n">>,
      <<"t","h","i","s">>, <<"t","h","a","t">>, <<"t","h","e","s","e">>,
      <<"t","h","o","s","e">>, <<"i">>, <<"y","o","u">>, <<"h","e">>,
      <<"s","h","e">>, <<"i","t">>, <<"w","e">>, <<"t","h","e","y">>, <<"m","e">>,
      <<"h","i","m">>, <<"h","e","r">>, <<"u","s">>, <<"t","h","e","m">>,
      <<"m","y">>, <<"y","o","u","r">>, <<"h","i","s">>, <<"i","t","s">>,
      <<"o","u","r">>, <<"t","h","e","i","r">> }

\* Cap of extract_topic_keywords: list(keywords)[:10]
MAX_KEYWORDS ==
    10

\* The set comprehension of extract_topic_keywords, before the cap
keywords_of(text) ==
    { w \in Range(findall_words(lower(text), 1)) : w \notin stopwords }

\* extract_topic_keywords: set(list(keywords)[:10]) keeps the first 10 members
\* in the iteration order of a Python set, which is the order of the string
\* hashes (randomised per process), not the order of appearance: with more
\* than 10 keywords any 10 of them may be kept.  The operator gives the set
\* of results the call can return.
extract_topic_keywords(text) ==
    LET keywords == keywords_of(text)
    IN  IF Cardinality(keywords) <= MAX_KEYWORDS
        THEN { keywords }
        ELSE { S \in SUBSET keywords : Cardinality(S) = MAX_KEYWORDS }

AUTO_RESET_KEYWORDS ==
    << <<"n","e","w"," ","t","o","p","i","c">>,
       <<"c","h","a","n","g","e"," ","s","u","b","j","e","c","t">>,
       <<"s","o","m","e","t","h","i","n","g"," ","e","l","s","e">>,
       <<"d","i","f","f","e","r","e","n","t"," ","q","u","e","s","t","i","o","n">>,
       <<"b","y"," ","t","h","e"," ","w","a","y">>,
       <<"b","t","w">>,
       <<"m","o","v","i","n","g"," ","o","n">>,
       <<"n","e","x","t"," ","q","u","e","s","t","i","o","n">>,
       <<"d","i","f","f","e","r","e","n","t"," ","t","o","p","i","c">> >>

\* detect_explicit_topic_change: any(keyword in text.lower() ...)
detect_explicit_topic_change(text) ==
    \E k \in 1..Len(AUTO_RESET_KEYWORDS) :
        Contains(lower(text), AUTO_RESET_KEYWORDS[k])

\* similarity < (1 - TOPIC_CHANGE_THRESHOLD) with TOPIC_CHANGE_THRESHOLD = 0.7,
\* in IEEE doubles: 1 - 0.7 evaluates to 0.30000000000000004, and
\* intersection / union to the double nearest the quotient, so a quotient of
\* exactly 3/10 (the double 0.3) compares as smaller.  For every
\* 0 <= intersection <= union <= 20 (two sets of at most 10 keywords) the
\* comparison is true exactly when 10 * intersection <= 3 * union.
similarity_below_limit(intersection, union) ==
    10 * intersection <= 3 * union

\* detect_topic_change
detect_topic_change(old_keywords, new_keywords) ==
    IF old_keywords = {} \/ new_keywords = {} THEN FALSE
    ELSE LET intersection == Cardinality(old_keywords \cap new_keywords)
             union == Cardinality(old_keywords \cup new_keywords)
         IN  IF union = 0 THEN FALSE
             ELSE similarity_below_limit(intersection, union)

---------------------------------------------------------------------------
(* ConversationContext and the context store (conversation_manager.py)     *)
(* A Python dict is a function whose domain is the set of its keys.        *)
(* ConversationContext.current_topic (always None) and last_reset (only    *)
(* formatted by get_context_stats) are not part of the model.              *)

MAX_HISTORY_LENGTH ==
    12

\* Number of trailing messages get_relevant_messages always keeps
RECENT_MESSAGES ==
    4

\* Minimum number of stored messages for the automatic reset
AUTO_RESET_MIN_MESSAGES ==
    4

None ==
    "None"

EXPLICIT_RESET_MESSAGE ==
    "New conversation started - Context cleared!"

AUTOMATIC_RESET_MESSAGE ==
    "Topic change detected - Starting fresh context!"

\* ConversationContext.__init__
ConversationContext ==
    [messages |-> << >>, topic_keywords |-> {}]

deque_append_drops_newest(messages, message) ==
    IF Len(messages) >= MAX_HISTORY_LENGTH
    THEN SubSeq(messages, 1, Len(messages) - 1) \o << message >>
    ELSE Append(messages, message)

\* deque(maxlen=MAX_HISTORY_LENGTH).append: a full deque drops its leftmost
\* item to make room
deque_append(messages, message) ==
    IF Len(messages) >= MAX_HISTORY_LENGTH
    THEN Tail(messages) \o << message >>
    ELSE Append(messages, message)

\* ConversationContext.add_message; topic_keywords is {} for None
add_message(context, role, content, topic_keywords, timestamp) ==
    LET message == [role |-> role, content |-> content,
                    timestamp |-> timestamp,
                    topic_keywords |-> topic_keywords]
    IN  [messages |-> deque_append(context.messages, message),
         topic_keywords |-> context.topic_keywords \cup topic_keywords]

\* list(self.messages).index(msg): 0-based position of the first message
\* equal to msg (dict equality: role, content, timestamp and keywords)
index_of(messages, msg) ==
    (CHOOSE j \in 1..Len(messages) :
        /\ messages[j] = msg
        /\ \A k \in 1..(j - 1) : messages[k] # msg) - 1

\* The test of the loop body of get_relevant_messages for one message
is_relevant(messages, msg, current_keywords) ==
    \/ Len(messages) - index_of(messages, msg) <= RECENT_MESSAGES
    \/ /\ msg.topic_keywords # {}
       /\ current_keywords # {}
       /\ Cardinality(msg.topic_keywords \cap current_keywords) > 0

RECURSIVE relevant_from(_, _, _)
relevant_from(messages, i, current_keywords) ==
    IF i > Len(messages) THEN << >>
    ELSE (IF is_relevant(messages, messages[i], current_keywords)
          THEN << messages[i] >> ELSE << >>)
         \o relevant_from(messages, i + 1, current_keywords)

get_relevant_messages_always_filtered(context, current_keywords) ==
    relevant_from(context.messages, 1, current_keywords)

\* ConversationContext.get_relevant_messages
get_relevant_messages(context, current_keywords) ==
    IF current_keywords = {} THEN context.messages
    ELSE relevant_from(context.messages, 1, current_keywords)

clear_context_keywords_only(context) ==
    [messages |-> context.messages, topic_keywords |-> {}]

\* ConversationContext.clear_context
clear_context(context) ==
    [messages |-> << >>, topic_keywords |-> {}]

\* dict.get(user_id, set()) on user_topics
topics_get(topics, user_id) ==
    IF user_id \in DOMAIN topics THEN topics[user_id] ELSE {}

\* d[key] = value on a dict
dict_set(d, key, value) ==
    [k \in DOMAIN d \cup {key} |-> IF k = key THEN value ELSE d[k]]

\* del d[key]
dict_del(d, key) ==
    [k \in DOMAIN d \ {key} |-> d[k]]

\* The "if user_id not in conversation_histories" prologue shared by
\* get_conversation_history and add_to_conversation_history
with_context(histories, user_id) ==
    IF user_id \in DOMAIN histories THEN histories
    ELSE dict_set(histories, user_id, ConversationContext)

\* The {"role", "content"} projection get_conversation_history returns
simple_format(messages) ==
    [i \in 1..Len(messages) |->
        [role |-> messages[i].role, content |-> messages[i].content]]

\* get_conversation_history: the new conversation_histories and the list
\* returned
get_conversation_history(histories, topics, user_id) ==
    LET h == with_context(histories, user_id)
        current_keywords == topics_get(topics, user_id)
    IN  [histories |-> h,
         ret |-> simple_format(
                     get_relevant_messages(h[user_id], current_keywords))]

reset_kind_automatic_first(role, content, current_keywords, new_keywords, stored) ==
    IF role # "user" THEN None
    ELSE IF /\ current_keywords # {}
            /\ detect_topic_change(current_keywords, new_keywords)
            /\ stored >= AUTO_RESET_MIN_MESSAGES
         THEN AUTOMATIC_RESET_MESSAGE
    ELSE IF detect_explicit_topic_change(content) THEN EXPLICIT_RESET_MESSAGE
    ELSE None

reset_kind_any_role(role, content, current_keywords, new_keywords, stored) ==
    IF detect_explicit_topic_change(content) THEN EXPLICIT_RESET_MESSAGE
    ELSE IF /\ current_keywords # {}
            /\ detect_topic_change(current_keywords, new_keywords)
            /\ stored >= AUTO_RESET_MIN_MESSAGES
         THEN AUTOMATIC_RESET_MESSAGE
    ELSE None

reset_kind_any_length(role, content, current_keywords, new_keywords, stored) ==
    IF role # "user" THEN None
    ELSE IF detect_explicit_topic_change(content) THEN EXPLICIT_RESET_MESSAGE
    ELSE IF /\ current_keywords # {}
            /\ detect_topic_change(current_keywords, new_keywords)
         THEN AUTOMATIC_RESET_MESSAGE
    ELSE None

\* The decision of add_to_conversation_history (lines 142-155): which reset,
\* if any, the append performs
reset_kind(role, content, current_keywords, new_keywords, stored) ==
    IF role # "user" THEN None
    ELSE IF detect_explicit_topic_change(content) THEN EXPLICIT_RESET_MESSAGE
    ELSE IF /\ current_keywords # {}
            /\ detect_topic_change(current_keywords, new_keywords)
            /\ stored >= AUTO_RESET_MIN_MESSAGES
         THEN AUTOMATIC_RESET_MESSAGE
    ELSE None

\* add_to_conversation_history, given the keywords extract_topic_keywords
\* returned for content and the clock reading: the new
\* conversation_histories and user_topics, and the value returned
add_to_conversation_history(histories, topics, user_id, role, content, new_keywords, timestamp) ==
    LET h == with_context(histories, user_id)
        context == h[user_id]
        current_keywords == topics_get(topics, user_id)
        context_reset_message ==
            reset_kind(role, content, current_keywords, new_keywords,
                       Len(context.messages))
        kept == IF context_reset_message = None THEN context
                ELSE clear_context(context)
        added == add_message(kept, role, content,
                             IF role = "user" THEN new_keywords ELSE {},
                             timestamp)
    IN  [histories |-> dict_set(h, user_id, added),
         topics |-> IF role = "user"
                    THEN dict_set(topics, user_id, new_keywords)
                    ELSE topics,
         ret |-> context_reset_message]

\* Variant that leaves the tracked keywords of the user in place
clear_user_context_keeps_topics(histories, topics, user_id) ==
    IF user_id \in DOMAIN histories
    THEN [histories |-> dict_set(histories, user_id,
                                 clear_context(histories[user_id])),
          topics |-> topics,
          ret |-> TRUE]
    ELSE [histories |-> histories, topics |-> topics, ret |-> FALSE]

\* clear_user_context: the new dicts and the boolean returned
clear_user_context(histories, topics, user_id) ==
    IF user_id \in DOMAIN histories
    THEN [histories |-> dict_set(histories, user_id,
                                 clear_context(histories[user_id])),
          topics |-> dict_del(topics, user_id),
          ret |-> TRUE]
    ELSE [histories |-> histories, topics |-> topics, ret |-> FALSE]

---------------------------------------------------------------------------
(* Admission (fast_main.py: validate_and_sanitize_input,                   *)
(* database_manager.py: check_user_limits)                                 *)

Whitespace ==
    { " ", "\t", "\n" }

\* End of the maximal run of non-whitespace characters starting at i: the
\* first position from i on that ends the text or stands before whitespace
TokenEnd(text, i) ==
    LET stops == { e \in i..Len(text) :
                     e = Len(text) \/ text[e + 1] \in Whitespace }
    IN  CHOOSE e \in stops : \A f \in stops : e <= f

\* str.split(): the maximal runs of non-whitespace characters
RECURSIVE split(_, _)
split(text, i) ==
    IF i > Len(text) THEN << >>
    ELSE IF text[i] \in Whitespace THEN split(text, i + 1)
    ELSE LET e == TokenEnd(text, i)
         IN  << SubSeq(text, i, e) >> \o split(text, e + 1)

\* " ".join(words)
RECURSIVE join(_)
join(words) ==
    IF words = << >> THEN << >>
    ELSE IF Len(words) = 1 THEN words[1]
    ELSE words[1] \o << " " >> \o join(Tail(words))

\* The maximal runs of \w characters of a text
RECURSIVE word_runs(_, _)
word_runs(text, i) ==
    IF i > Len(text) THEN << >>
    ELSE IF ~IsWordChar(text[i]) THEN word_runs(text, i + 1)
    ELSE LET e == RunEnd(text, i)
         IN  << SubSeq(text, i, e) >> \o word_runs(text, e + 1)

MAX_INPUT_LENGTH ==
    4000

MIN_INPUT_LENGTH ==
    3

\* Messages shorter than this are searched for low-content tokens
SHORT_MESSAGE_LENGTH ==
    20

\* (.)\1{20,}: one character followed by at least 20 copies of it
REPEAT_RUN_LENGTH ==
    21

\* re.search(r'(?i)\b(spam|test|aaa+|111+)\b', cleaned): a whole \w-run that
\* is spam or test in any case, or at least three a/A, or at least three 1
low_content_match(cleaned) ==
    \E k \in 1..Len(word_runs(cleaned, 1)) :
        LET run == lower(word_runs(cleaned, 1)[k])
        IN  \/ run = <<"s","p","a","m">>
            \/ run = <<"t","e","s","t">>
            \/ Len(run) >= 3 /\ \A n \in 1..Len(run) : run[n] = "a"
            \/ Len(run) >= 3 /\ \A n \in 1..Len(run) : run[n] = "1"

\* re.search(r'(.)\1{20,}', cleaned)
repeated_char_match(cleaned) ==
    \E i \in 1..(Len(cleaned) - REPEAT_RUN_LENGTH + 1) :
        /\ cleaned[i] # "\n"
        /\ \A n \in i..(i + REPEAT_RUN_LENGTH - 1) : cleaned[n] = cleaned[i]

validate_abuse_before_length(text, max_length) ==
    LET cleaned == join(split(text, 1))
        rejected(reason) ==
            [is_valid |-> FALSE, cleaned |-> << >>, error_message |-> reason]
    IN  IF split(text, 1) = << >> THEN rejected("Empty Input")
        ELSE IF \/ Len(cleaned) < SHORT_MESSAGE_LENGTH /\ low_content_match(cleaned)
                \/ repeated_char_match(cleaned)
             THEN rejected("Invalid Input")
        ELSE IF Len(cleaned) > max_length THEN rejected("Input Too Long")
        ELSE IF Len(cleaned) < MIN_INPUT_LENGTH THEN rejected("Input Too Short")
        ELSE [is_valid |-> TRUE, cleaned |-> cleaned, error_message |-> ""]

\* validate_and_sanitize_input: (is_valid, cleaned_text, error_message)
validate_and_sanitize_input(text, max_length) ==
    LET cleaned == join(split(text, 1))
        rejected(reason) ==
            [is_valid |-> FALSE, cleaned |-> << >>, error_message |-> reason]
    IN  IF split(text, 1) = << >> THEN rejected("Empty Input")
        ELSE IF Len(cleaned) > max_length THEN rejected("Input Too Long")
        ELSE IF Len(cleaned) < MIN_INPUT_LENGTH THEN rejected("Input Too Short")
        ELSE IF \/ Len(cleaned) < SHORT_MESSAGE_LENGTH /\ low_content_match(cleaned)
                \/ repeated_char_match(cleaned)
             THEN rejected("Invalid Input")
        ELSE [is_valid |-> TRUE, cleaned |-> cleaned, error_message |-> ""]

UNLIMITED ==
    -1

FREE_DAILY_IMAGES ==
    3

FREE_DAILY_TOKENS ==
    20000

PREMIUM_DAILY_IMAGES ==
    50

PREMIUM_DAILY_TOKENS ==
    500000

PLANS ==
    [free |-> [daily_images |-> FREE_DAILY_IMAGES,
               daily_tokens_limit |-> FREE_DAILY_TOKENS],
     premium |-> [daily_images |-> PREMIUM_DAILY_IMAGES,
                  daily_tokens_limit |-> PREMIUM_DAILY_TOKENS],
     premium_plus |-> [daily_images |-> UNLIMITED,
                       daily_tokens_limit |-> UNLIMITED]]

check_user_limits_any_counter(user_row, tools) ==
    LET plan_details == IF user_row.plan_name \in DOMAIN PLANS
                        THEN PLANS[user_row.plan_name] ELSE PLANS["free"]
    IN  IF /\ plan_details.daily_images # UNLIMITED
           /\ user_row.daily_images_used >= plan_details.daily_images
        THEN [can_proceed |-> FALSE, message |-> "Daily Image Limit Reached!"]
        ELSE IF /\ plan_details.daily_tokens_limit # UNLIMITED
                /\ user_row.daily_tokens_used >= plan_details.daily_tokens_limit
        THEN [can_proceed |-> FALSE, message |-> "Daily Chat Limit Reached!"]
        ELSE [can_proceed |-> TRUE, message |-> "Limits are okay."]

\* check_user_limits: (can_proceed, message)
check_user_limits(user_row, tools) ==
    LET plan_details == IF user_row.plan_name \in DOMAIN PLANS
                        THEN PLANS[user_row.plan_name] ELSE PLANS["free"]
    IN  IF "image_generation" \in tools
        THEN IF /\ plan_details.daily_images # UNLIMITED
                /\ user_row.daily_images_used >= plan_details.daily_images
             THEN [can_proceed |-> FALSE,
                   message |-> "Daily Image Limit Reached!"]
             ELSE [can_proceed |-> TRUE, message |-> "Limits are okay."]
        ELSE IF /\ plan_details.daily_tokens_limit # UNLIMITED
                /\ user_row.daily_tokens_used >= plan_details.daily_tokens_limit
             THEN [can_proceed |-> FALSE,
                   message |-> "Daily Chat Limit Reached!"]
             ELSE [can_proceed |-> TRUE, message |-> "Limits are okay."]

---------------------------------------------------------------------------
(* Bounds of the model                                                     *)

\* Workers of the pool in Spec (post_init starts WORKER_COUNT = 8 of them)
PoolSize ==
    2

\* Jobs admitted to the queue in one behaviour of Spec
MaxJobs ==
    3

\* Longest of the texts of ValidateSpec that are enumerated letter by letter
MaxTextLen ==
    4

\* Invocations of the completion call recorded per job (the recording
\* saturates, the worker's loop does not stop)
MaxCalls ==
    4

\* Largest reading of the clock
MaxTime ==
    1

\* Context operations of one behaviour of CtxSpec
MaxOps ==
    2

\* Messages appended before the first step of a behaviour of CtxSpec
MaxPrefill ==
    12

---------------------------------------------------------------------------
(* Inputs                                                                  *)

T_cats ==
    <<"c","a","t"," ","d","o","g"," ","o","w","l">>

T_six ==
    <<"c","a","t"," ","d","o","g"," ","o","w","l"," ","f","o","x"," ",
      "b","e","e"," ","a","n","t">>

T_seven ==
    <<"c","a","t"," ","d","o","g"," ","o","w","l"," ","e","l","k"," ",
      "e","m","u"," ","y","a","k"," ","h","e","n">>

T_cat ==
    <<"T","h","e"," ","C","a","t">>

T_pig ==
    <<"p","i","g">>

T_ok ==
    <<"o","k">>

T_btw ==
    <<"B","T","W"," ","d","o","g">>

T_spaced ==
    <<" ","p","i","g"," "," ","e","m","u"," ">>

R_text ==
    <<"s","u","r","e"," ","c","a","t">>

R_png ==
    <<"a",".","p","n","g">>

E_rate ==
    <<"R","a","t","e"," ","l","i","m","i","t"," ","e","x","c","e","e","d","e","d">>

E_boom ==
    <<"b","o","o","m">>

\* str(e) of the AttributeError raised by job.update.message.reply_... when
\* update.message is None
E_attr ==
    <<"'","N","o","n","e","T","y","p","e","'"," ","o","b","j","e","c","t"," ",
      "h","a","s"," ","n","o"," ","a","t","t","r","i","b","u","t","e">>

\* The text the worker prepends to the prompt of an image job (line 212)
IMAGE_PROMPT_PREFIX ==
    <<"G","e","n","e","r","a","t","e"," ","a"," ","h","i","g","h","-","q","u",
      "a","l","i","t","y",","," ","d","e","t","a","i","l","e","d"," ","i","m",
      "a","g","e"," ","o","f",":"," ">>

\* Head of the response_text the worker builds for a tool-call result
TOOL_RESPONSE_TEXT ==
    <<"F","u","n","c","t","i","o","n"," ","C","a","l","l"," ","R","e","q","u",
      "e","s","t","e","d">>

\* Texts users send to the job handlers
RawPrompts ==
    { T_cats, T_btw, T_spaced, T_ok }

\* Capability lists the handlers pass to queue_job_handler
ToolLists ==
    { {"image_generation"}, {"web_search", "code_interpreter"} }

\* Values of the completion call: None, a str or a dict
NoneResult ==
    [type |-> "NoneType", text |-> << >>, dict_type |-> ""]

StrResult(text) ==
    [type |-> "str", text |-> text, dict_type |-> ""]

DictResult(dict_type) ==
    [type |-> "dict", text |-> << >>, dict_type |-> dict_type]

Results ==
    { NoneResult, StrResult(R_text), StrResult(<< >>), StrResult(<<" ">>),
      StrResult(R_png), DictResult("tool_calls"), DictResult("other") }

\* Texts of the exceptions the completion call and the transport raise
ErrorTexts ==
    { E_rate, E_boom }

\* The exception text of the behaviours of JobSpec
JobErrors ==
    { E_boom }

---------------------------------------------------------------------------
(* State                                                                   *)

VARIABLES
    conversation_histories, \* dict user_id -> ConversationContext
    user_topics,            \* dict user_id -> tracked keyword set
    now,                    \* the reading time.time() returns
    last,                   \* the last call made on the context store
    users_db,               \* the users table: plan and usage counters
    jobs,                   \* every Job admitted, in order of admission
    job_queue,              \* asyncio.Queue: positions in jobs, oldest first
    unfinished_tasks,       \* asyncio.Queue's count of put() minus task_done()
    wk,                     \* the workers: position in worker() and locals
    gate,                   \* what queue_job_handler last answered
    bot_data                \* context.bot_data: the three mode sets

vars ==
    << conversation_histories, user_topics, now, last, users_db, jobs,
       job_queue, unfinished_tasks, wk, gate, bot_data >>

\* Locals of worker() before its first job, and the record kept per job:
\* attempts (what each completion call did), trace (attempts, sleeps and
\* messages sent, in order), inc_images / inc_tokens (usage this job added),
\* user_turns / assistant_turns (turns this job appended; user_turns is
\* counted up to MaxCalls), branch (how the result was handled), artifact
\* (the image file), usage_at_claim (the user's row when the job was
\* claimed), passes (the passes through the head of the retry loop, counted
\* modulo 2)
IdleWorker ==
    [pc |-> "get", job |-> 0, retry_count |-> 0, result |-> NoneResult,
     context_reset_message |-> None, history |-> << >>, error |-> << >>,
     attempts |-> << >>, trace |-> << >>, inc_images |-> 0, inc_tokens |-> 0,
     user_turns |-> 0, assistant_turns |-> 0, branch |-> "none",
     artifact |-> "none", usage_at_claim |-> << >>, passes |-> 0,
     reset_produced |-> None, preceding |-> None, error_msg |-> None]

\* last: the call (op, user_id, role, content), what it found (before: the
\* stored messages, had_context: whether conversation_histories had the key,
\* topics_before: the tracked keywords, had_topics: whether
\* user_topics had the key, new_keywords: what extract_topic_keywords gave),
\* and what it returned (ret: notification or boolean, returned: the list);
\* n counts the calls, prev_op and prev_user are the op and user_id of the
\* call before it
NoCall ==
    [n |-> 0, op |-> "none", user_id |-> 0, role |-> "", content |-> << >>,
     new_keywords |-> {}, ret |-> None, returned |-> << >>,
     before |-> << >>, topics_before |-> {}, had_topics |-> FALSE,
     had_context |-> FALSE, prev_op |-> "none", prev_user |-> 0]

\* gate: the update queue_job_handler last handled (user_id, text, tools,
\* has_message, is_command), how it ended (outcome), the reply it built
\* (message) and whether update.message.reply_text sent it (sent)
\* context.bot_data before any mode was switched on; a key that is not yet
\* present reads as the empty set everywhere it is used
NoModes ==
    [image_mode_users |-> {}, code_mode_users |-> {},
     websearch_mode_users |-> {}]

NoAnswer ==
    [outcome |-> "none", user_id |-> 0, message |-> "", text |-> << >>,
     tools |-> {}, has_message |-> FALSE, is_command |-> FALSE,
     sent |-> FALSE]

\* A user row as get_or_create_user inserts it
NewUser ==
    [plan_name |-> "premium_plus", daily_images_used |-> 0,
     daily_tokens_used |-> 0]

Event(ev, n) ==
    [ev |-> ev, n |-> n]

Log(r, ev, n) ==
    [r EXCEPT !.trace = Append(@, Event(ev, n))]

MAX_RETRIES ==
    3

retries_left_inclusive(retry_count) ==
    retry_count <= MAX_RETRIES

\* if retry_count < max_retries (line 230), after the increment
retries_left(retry_count) ==
    retry_count < MAX_RETRIES

backoff_before_increment(retry_count) ==
    2 ^ (retry_count - 1)

\* The delay of asyncio.sleep(2 ** retry_count) (line 232)
backoff(retry_count) ==
    2 ^ retry_count

---------------------------------------------------------------------------
(* asyncio.Queue: put appends on the right, get takes from the left        *)

queue_put(q, item) ==
    Append(q, item)

queue_peek(q) ==
    [item |-> Head(q), rest |-> q]

queue_get_newest(q) ==
    [item |-> q[Len(q)], rest |-> SubSeq(q, 1, Len(q) - 1)]

\* The item get() returns and the queue it leaves
queue_get(q) ==
    [item |-> Head(q), rest |-> Tail(q)]

---------------------------------------------------------------------------
(* worker(): the steps between two awaits                                  *)

\* "image_generation" in job.tools
IsImageJob_never(j) ==
    FALSE

IsImageJob(j) ==
    "image_generation" \in jobs[j].tools

\* if result: ... isinstance(result, str) and result.endswith('.png') ...
\* (lines 241-282): the branch that handles a value of the completion call
EndsWithPng(text) ==
    /\ Len(text) >= 4
    /\ SubSeq(text, Len(text) - 3, Len(text)) = <<".","p","n","g">>

IsTruthy(result) ==
    \/ result.type = "str" /\ result.text # << >>
    \/ result.type = "dict"

result_branch_text_first(result) ==
    IF ~IsTruthy(result) THEN "no_response"
    ELSE IF result.type = "str" THEN "text"
    ELSE IF result.type = "dict" /\ result.dict_type = "tool_calls"
         THEN "tool_calls"
    ELSE "unhandled"

result_branch(result) ==
    IF ~IsTruthy(result) THEN "no_response"
    ELSE IF result.type = "str" /\ EndsWithPng(result.text) THEN "image"
    ELSE IF result.type = "dict" /\ result.dict_type = "tool_calls"
         THEN "tool_calls"
    ELSE IF result.type = "str" THEN "text"
    ELSE "unhandled"

\* The condition of the retry loop (line 202)
loop_continues(retry_count, result) ==
    retry_count < MAX_RETRIES /\ result.type = "NoneType"

\* not text.strip(): send_formatted_message returns without sending
IsBlank(text) ==
    \A i \in 1..Len(text) : text[i] \in Whitespace

\* token_count of line 263
token_count(prompt_to_send, text) ==
    (Len(prompt_to_send) \div 4) + (Len(text) \div 4)

prompt_to_send(j) ==
    IF IsImageJob(j) THEN IMAGE_PROMPT_PREFIX \o jobs[j].prompt
    ELSE jobs[j].prompt

\* The worker goes on to its next await
Proceed(w, r, pc) ==
    /\ wk' = [wk EXCEPT ![w] = [r EXCEPT !.pc = pc]]
    /\ UNCHANGED << jobs, unfinished_tasks >>

TaskDone_forgotten(w, r, status, pc) ==
    /\ wk' = [wk EXCEPT ![w] = [r EXCEPT !.pc = pc]]
    /\ UNCHANGED << jobs, unfinished_tasks >>

\* finally: queue.task_done(), then back to queue.get() (or out of the
\* coroutine when an exception is still propagating)
TaskDone(w, r, status, pc) ==
    /\ wk' = [wk EXCEPT ![w] = [r EXCEPT !.pc = pc]]
    /\ jobs' = [jobs EXCEPT ![r.job].status = status,
                            ![r.job].done = @ + 1]
    /\ unfinished_tasks' = unfinished_tasks - 1

\* except Exception as e (lines 283-321): the error message is built and,
\* if the update has a message, sent
\* The substrings the except block of worker() looks for in str(e).lower()
M_rate_limit ==
    <<"r","a","t","e"," ","l","i","m","i","t">>

M_api_key ==
    <<"a","p","i"," ","k","e","y">>

M_unauthorized ==
    <<"u","n","a","u","t","h","o","r","i","z","e","d">>

M_timeout ==
    <<"t","i","m","e","o","u","t">>

M_network ==
    <<"n","e","t","w","o","r","k">>

M_connection ==
    <<"c","o","n","n","e","c","t","i","o","n">>

\* Variant that asks for a timeout before the authentication texts
error_category_timeout_first(err) ==
    LET t == lower(err)
    IN  IF Contains(t, M_rate_limit) THEN "rate_limit"
        ELSE IF Contains(t, M_timeout) THEN "timeout"
        ELSE IF Contains(t, M_api_key) \/ Contains(t, M_unauthorized)
             THEN "auth"
        ELSE IF Contains(t, M_network) \/ Contains(t, M_connection)
             THEN "network"
        ELSE "unknown"

\* The if/elif chain of the except block (lines 289-318): which error_msg is
\* built for the exception text
error_category(err) ==
    LET t == lower(err)
    IN  IF Contains(t, M_rate_limit) THEN "rate_limit"
        ELSE IF Contains(t, M_api_key) \/ Contains(t, M_unauthorized)
             THEN "auth"
        ELSE IF Contains(t, M_timeout) THEN "timeout"
        ELSE IF Contains(t, M_network) \/ Contains(t, M_connection)
             THEN "network"
        ELSE "unknown"

Fail(w, r, err) ==
    LET r2 == [r EXCEPT !.error = err, !.error_msg = error_category(err)]
    IN  IF jobs[r.job].has_message
        THEN Proceed(w, r2, "reply_error")
        ELSE TaskDone(w, r2, "Failed", "get")

\* A reply through job.update.message inside the try block: an
\* AttributeError when update.message is None
Send(w, r, pc) ==
    IF jobs[r.job].has_message THEN Proceed(w, r, pc)
    ELSE Fail(w, r, E_attr)

\* One pass through the head of the retry loop (lines 204-226), up to the
\* await of the completion call
StartAttempt(w, r) ==
    LET j == r.job
        u == jobs[j].user_id
        g == get_conversation_history(conversation_histories, user_topics, u)
        r1 == [r EXCEPT !.pc = "to_thread",
                        !.history = g.ret,
                        !.passes = (@ + 1) % 2,
                        !.trace = IF Len(r.attempts) < MaxCalls
                                  THEN Append(@, Event("attempt",
                                                       Len(r.attempts) + 1))
                                  ELSE @]
    IN  IF IsImageJob(j)
        THEN /\ conversation_histories' = g.histories
             /\ user_topics' = user_topics
             /\ wk' = [wk EXCEPT ![w] = r1]
        ELSE \E new_keywords \in extract_topic_keywords(jobs[j].prompt) :
                LET a == add_to_conversation_history(
                             g.histories, user_topics, u, "user",
                             jobs[j].prompt, new_keywords, now)
                IN  /\ conversation_histories' = a.histories
                    /\ user_topics' = a.topics
                    /\ wk' = [wk EXCEPT ![w] =
                                [r1 EXCEPT !.context_reset_message = a.ret,
                                           !.reset_produced =
                                               IF a.ret # None THEN a.ret
                                               ELSE @,
                                           !.user_turns =
                                               IF @ < MaxCalls THEN @ + 1
                                               ELSE @]]

\* job = await queue.get(), then get_or_create_user raises: the exception
\* leaves worker() before the try block, and the task ends
ClaimLookupFails(w) ==
    /\ wk[w].pc = "get"
    /\ job_queue # << >>
    /\ job_queue' = queue_get(job_queue).rest
    /\ jobs' = [jobs EXCEPT ![queue_get(job_queue).item].status = "Claimed",
                            ![queue_get(job_queue).item].claims = @ + 1]
    /\ wk' = [wk EXCEPT ![w] = [@ EXCEPT !.pc = "dead",
                                         !.job = queue_get(job_queue).item]]
    /\ UNCHANGED << conversation_histories, user_topics, now, last, users_db,
                    unfinished_tasks, gate,
                    bot_data >>

\* job = await queue.get(), the profile is read, and the first attempt starts
Claim(w) ==
    /\ wk[w].pc = "get"
    /\ job_queue # << >>
    /\ job_queue' = queue_get(job_queue).rest
    /\ jobs' = [jobs EXCEPT ![queue_get(job_queue).item].status = "Executing",
                            ![queue_get(job_queue).item].claims = @ + 1]
    /\ StartAttempt(w, [IdleWorker EXCEPT
                           !.job = queue_get(job_queue).item,
                           !.usage_at_claim =
                               users_db[jobs[queue_get(job_queue).item].user_id]])
    /\ UNCHANGED << now, last, users_db, unfinished_tasks, gate,
                    bot_data >>

Record(r, what) ==
    [r EXCEPT !.attempts = IF Len(@) < MaxCalls THEN Append(@, what) ELSE @]

\* The completion call returns None: the loop condition holds again and the
\* next pass starts at once, retry_count unchanged
ReturnsNone(w) ==
    /\ wk[w].pc = "to_thread"
    /\ loop_continues(wk[w].retry_count, NoneResult)
    /\ StartAttempt(w, Record(wk[w], "None"))
    /\ UNCHANGED << now, last, users_db, jobs, job_queue, unfinished_tasks,
                    gate,
                    bot_data >>

\* The role and content of the newest stored message of a user, or None
last_turn(histories, user_id) ==
    IF user_id \notin DOMAIN histories \/ histories[user_id].messages = << >>
    THEN None
    ELSE LET m == histories[user_id].messages[Len(histories[user_id].messages)]
         IN  [role |-> m.role, content |-> m.content]

\* The completion call returns a value other than None (lines 241-282)
Returns(w, result) ==
    /\ wk[w].pc = "to_thread"
    /\ ~loop_continues(wk[w].retry_count, result)
    /\   LET j == wk[w].job
             u == jobs[j].user_id
             branch == result_branch(result)
             r == [Record(wk[w], branch) EXCEPT !.result = result,
                                                !.branch = branch]
         IN  \/ /\ branch = "image"
                /\ users_db' = [users_db EXCEPT
                                  ![u].daily_images_used = @ + 1]
                /\ IF jobs[j].has_message
                   THEN Proceed(w, [r EXCEPT !.inc_images = @ + 1,
                                             !.artifact = "present"],
                                "reply_photo")
                   ELSE Fail(w, [r EXCEPT !.inc_images = @ + 1,
                                          !.artifact = "deleted"], E_attr)
                /\ UNCHANGED << conversation_histories, user_topics >>
             \/ /\ branch = "tool_calls"
                /\ \E kw \in extract_topic_keywords(TOOL_RESPONSE_TEXT) :
                     LET a == add_to_conversation_history(
                                  conversation_histories, user_topics, u,
                                  "assistant", TOOL_RESPONSE_TEXT, kw, now)
                     IN  /\ conversation_histories' = a.histories
                         /\ user_topics' = a.topics
                /\ Send(w, [r EXCEPT !.assistant_turns = @ + 1,
                                      !.preceding = last_turn(conversation_histories, u)],
                        "reply_tool")
                /\ UNCHANGED users_db
             \/ /\ branch = "text"
                /\ users_db' = [users_db EXCEPT
                                  ![u].daily_tokens_used =
                                      @ + token_count(prompt_to_send(j),
                                                      result.text)]
                /\ \E kw \in extract_topic_keywords(result.text) :
                     LET a == add_to_conversation_history(
                                  conversation_histories, user_topics, u,
                                  "assistant", result.text, kw, now)
                     IN  /\ conversation_histories' = a.histories
                         /\ user_topics' = a.topics
                /\ LET r2 == [r EXCEPT
                                !.inc_tokens =
                                    @ + token_count(prompt_to_send(j),
                                                    result.text),
                                !.assistant_turns = @ + 1,
                                !.preceding = last_turn(conversation_histories, u)]
                   IN  IF r.context_reset_message # None
                       THEN Send(w, r2, "reply_reset")
                       ELSE IF IsBlank(result.text)
                       THEN TaskDone(w, r2, "Completed", "get")
                       ELSE Send(w, r2, "reply_text")
             \/ /\ branch = "unhandled"
                /\ TaskDone(w, r, "Completed", "get")
                /\ UNCHANGED << conversation_histories, user_topics, users_db >>
             \/ /\ branch = "no_response"
                /\ Send(w, r, "reply_no_response")
                /\ UNCHANGED << conversation_histories, user_topics, users_db >>
    /\ UNCHANGED << now, last, job_queue, gate,
                    bot_data >>

\* The completion call raises (lines 228-239)
Raises(w, err) ==
    /\ wk[w].pc = "to_thread"
    /\   LET r == [Record(wk[w], "raise") EXCEPT !.retry_count = @ + 1]
         IN  IF retries_left(r.retry_count)
             THEN Proceed(w, r, "sleep")
             ELSE Fail(w, [r EXCEPT !.branch = "error"], err)
    /\ UNCHANGED << conversation_histories, user_topics, now, last, users_db,
                    job_queue, gate,
                    bot_data >>

\* await asyncio.sleep(2 ** retry_count) is over; the notice is sent if the
\* update has a message, else the next pass of the loop starts
SleepDone(w) ==
    /\ wk[w].pc = "sleep"
    /\ LET r == Log(wk[w], "sleep", backoff(wk[w].retry_count))
       IN  IF jobs[r.job].has_message
           THEN /\ Proceed(w, r, "notice")
                /\ UNCHANGED << conversation_histories, user_topics >>
           ELSE /\ StartAttempt(w, r)
                /\ UNCHANGED << jobs, unfinished_tasks >>
    /\ UNCHANGED << now, last, users_db, job_queue, gate,
                    bot_data >>

\* The "Retrying... (attempt k/3)" notice is delivered
NoticeDelivered(w) ==
    /\ wk[w].pc = "notice"
    /\ StartAttempt(w, Log(wk[w], "notice", wk[w].retry_count + 1))
    /\ UNCHANGED << now, last, users_db, jobs, job_queue, unfinished_tasks,
                    gate,
                    bot_data >>

\* reply_text raises while sending the notice: the exception leaves the
\* inner except clause and reaches the outer handler
NoticeFails(w, err) ==
    /\ wk[w].pc = "notice"
    /\ Fail(w, [wk[w] EXCEPT !.branch = "error"], err)
    /\ UNCHANGED << conversation_histories, user_topics, now, last, users_db,
                    job_queue, gate,
                    bot_data >>

ReplyPcs ==
    { "reply_photo", "reply_tool", "reply_reset", "reply_text",
      "reply_no_response" }

\* A reply of the try block is delivered
ReplyDelivered(w) ==
    /\ wk[w].pc \in ReplyPcs
    /\ LET r == Log(wk[w], wk[w].pc, 0)
       IN  IF r.pc = "reply_photo"
           THEN TaskDone(w, [r EXCEPT !.artifact = "deleted"],
                         "Completed", "get")
           ELSE IF r.pc = "reply_reset" /\ ~IsBlank(r.result.text)
           THEN Proceed(w, r, "reply_text")
           ELSE TaskDone(w, r, "Completed", "get")
    /\ UNCHANGED << conversation_histories, user_topics, now, last, users_db,
                    job_queue, gate,
                    bot_data >>

\* A reply of the try block raises: finally removes the image file, and the
\* outer handler takes over
ReplyFails(w, err) ==
    /\ wk[w].pc \in ReplyPcs
    /\   Fail(w, [wk[w] EXCEPT
                    !.artifact = IF wk[w].pc = "reply_photo"
                                 THEN "deleted" ELSE @], err)
    /\ UNCHANGED << conversation_histories, user_topics, now, last, users_db,
                    job_queue, gate,
                    bot_data >>

\* The error message of the outer handler is delivered
ErrorReplyDelivered(w) ==
    /\ wk[w].pc = "reply_error"
    /\ TaskDone(w, Log(wk[w], "reply_error", 0), "Failed", "get")
    /\ UNCHANGED << conversation_histories, user_topics, now, last, users_db,
                    job_queue, gate,
                    bot_data >>

\* Sending the error message raises inside the except clause: finally runs
\* task_done(), then the exception leaves worker() and the task ends
ErrorReplyFails(w) ==
    /\ wk[w].pc = "reply_error"
    /\ TaskDone(w, wk[w], "Failed", "dead")
    /\ UNCHANGED << conversation_histories, user_topics, now, last, users_db,
                    job_queue, gate,
                    bot_data >>

---------------------------------------------------------------------------
(* queue_job_handler and the clock                                         *)

T_hello ==
    <<"H","e","l","l","o">>

admission_skips_validation(limits, no_prompt, checked) ==
    IF ~limits.can_proceed THEN "quota"
    ELSE IF no_prompt THEN "no_prompt"
    ELSE "queued"

\* The early returns of queue_job_handler, in their order: the quota check
\* (lines 372-377), the /image command without a description (405-414),
\* the validation (418-423)
admission(limits, no_prompt, checked) ==
    IF ~limits.can_proceed THEN "quota"
    ELSE IF no_prompt THEN "no_prompt"
    ELSE IF ~checked.is_valid THEN "invalid"
    ELSE "queued"

\* queue_job_handler for an update of user_id carrying text: is_command
\* tells a CommandHandler (context.args is the split text) from a
\* MessageHandler (context.args is None, the text is update.message.text);
\* only a command reaches the handler without update.message.  The custom
\* functions of get_user_functions, which only extend the tool list passed
\* on, and the daily reset of get_or_create_user are left out.
Enqueue(user_id, text, tools, has_message, is_command) ==
    /\ has_message \/ is_command
    /\ LET limits == check_user_limits(users_db[user_id], tools)
           given == IF is_command THEN join(split(text, 1))
                    ELSE IF has_message THEN text ELSE << >>
           raw_prompt == IF given = << >> THEN T_hello ELSE given
           checked == validate_and_sanitize_input(raw_prompt, MAX_INPUT_LENGTH)
           thinking_msg == IF "image_generation" \in tools
                           THEN "Creating your image..."
                           ELSE IF tools = {"web_search"}
                           THEN "Searching the web..."
                           ELSE IF tools = {"code_interpreter"}
                           THEN "Processing your code..."
                           ELSE "Thinking..."
           answer(outcome, message) ==
               [outcome |-> outcome, user_id |-> user_id, message |-> message,
                text |-> text, tools |-> tools, has_message |-> has_message,
                is_command |-> is_command, sent |-> has_message]
           no_prompt == given = << >> /\ "image_generation" \in tools /\ is_command
           outcome == admission(limits, no_prompt, checked)
       IN  IF outcome = "quota"
           THEN /\ gate' = answer("quota", limits.message)
                /\ UNCHANGED << jobs, job_queue, unfinished_tasks >>
           ELSE IF outcome = "no_prompt"
           THEN /\ gate' = answer("no_prompt", "Image Description Required")
                /\ UNCHANGED << jobs, job_queue, unfinished_tasks >>
           ELSE IF outcome = "invalid"
           THEN /\ gate' = answer("invalid", checked.error_message)
                /\ UNCHANGED << jobs, job_queue, unfinished_tasks >>
           ELSE /\ gate' = answer("queued", thinking_msg)
                /\ jobs' = Append(jobs,
                               [user_id |-> user_id, prompt |-> checked.cleaned,
                                tools |-> tools, has_message |-> has_message,
                                status |-> "Queued", done |-> 0,
                                claims |-> 0])
                /\ job_queue' = queue_put(job_queue, Len(jobs) + 1)
                /\ unfinished_tasks' = unfinished_tasks + 1
    /\ UNCHANGED << conversation_histories, user_topics, now, last, users_db,
                    wk,
                    bot_data >>

\* time.time() moves on
Tick ==
    /\ now < MaxTime
    /\ now' = now + 1
    /\ UNCHANGED << conversation_histories, user_topics, last, users_db, jobs,
                    job_queue, unfinished_tasks, wk, gate,
                    bot_data >>

---------------------------------------------------------------------------
(* Specifications                                                          *)

Users ==
    { 1, 2 }

\* The workers post_init started: the keys of wk
Workers ==
    DOMAIN wk

EmptyDict ==
    << >>

\* The state after n appends for user 1, alternately a user turn and an
\* assistant turn; fine tells whether the clock moved between any two of
\* them (readings n-1 .. 0 before the present) or not at all (readings 0)
RECURSIVE Prefill(_, _, _)
Prefill(k, n, fine) ==
    IF k = 0 THEN [histories |-> EmptyDict, topics |-> EmptyDict, ret |-> None]
    ELSE LET s == Prefill(k - 1, n, fine)
             role == IF k % 2 = 1 THEN "user" ELSE "assistant"
             content == IF k % 2 = 1 THEN T_six ELSE R_text
         IN  add_to_conversation_history(
                 s.histories, s.topics, 1, role, content,
                 CHOOSE kw \in extract_topic_keywords(content) : TRUE,
                 IF fine THEN k - n ELSE 0)

\* The bot after start-up with a pool of the given size, with n earlier
\* turns of user 1 in the context store
InitWith(pool, n, fine) ==
    /\ conversation_histories = Prefill(n, n, fine).histories
    /\ user_topics = Prefill(n, n, fine).topics
    /\ now = 0
    /\ last = NoCall
    /\ users_db = [u \in Users |-> NewUser]
    /\ jobs = << >>
    /\ job_queue = << >>
    /\ unfinished_tasks = 0
    /\ wk = [w \in pool |-> IdleWorker]
    /\ gate = NoAnswer
    /\ bot_data = NoModes

\* What the environment does to a worker: the completion call returns a value
\* or raises, a reply is delivered or raises
WorkerStep(w, results, errors) ==
    \/ ClaimLookupFails(w)
    \/ Claim(w)
    \/ \E err \in errors : Raises(w, err)
    \/ \E result \in results : Returns(w, result)
    \/ ReturnsNone(w)
    \/ SleepDone(w)
    \/ \E err \in errors : NoticeFails(w, err)
    \/ NoticeDelivered(w)
    \/ ReplyDelivered(w)
    \/ \E err \in errors : ReplyFails(w, err)
    \/ ErrorReplyDelivered(w)
    \/ ErrorReplyFails(w)

\* A text message, or a command update without update.message (a command
\* sent as a message is queued as the same job as its text)
Admit(users, prompts) ==
    \E u \in users, text \in prompts, tools \in ToolLists,
       has_message \in BOOLEAN :
       Enqueue(u, text, tools, has_message, ~has_message)

(* JobSpec: one worker and one job, every outcome of the completion call    *)

JobPrefills ==
    { 0, AUTO_RESET_MIN_MESSAGES }

JobWorkers ==
    { 1 }

\* The job is of the user whose history InitJob fills
JobUsers ==
    { 1 }

InitJob ==
    \E n \in JobPrefills : InitWith(JobWorkers, n, FALSE)

\* The clock moves before the job arrives and while a worker sleeps between
\* attempts; the worker itself never reads it
NextJob ==
    \/ (jobs = << >> \/ \E w \in Workers : wk[w].pc = "sleep") /\ Tick
    \/ jobs = << >> /\ Admit(JobUsers, RawPrompts)
    \/ \E w \in Workers : ClaimLookupFails(w)
    \/ \E w \in Workers : Claim(w)
    \/ \E w \in Workers : ReturnsNone(w)
    \/ \E w \in Workers, result \in Results : Returns(w, result)
    \/ \E w \in Workers, err \in JobErrors : Raises(w, err)
    \/ \E w \in Workers : SleepDone(w)
    \/ \E w \in Workers : NoticeDelivered(w)
    \/ \E w \in Workers, err \in JobErrors : NoticeFails(w, err)
    \/ \E w \in Workers : ReplyDelivered(w)
    \/ \E w \in Workers, err \in JobErrors : ReplyFails(w, err)
    \/ \E w \in Workers : ErrorReplyDelivered(w)
    \/ \E w \in Workers : ErrorReplyFails(w)

JobSpec ==
    InitJob /\ [][NextJob]_vars

\* The event loop runs every task that can run, and the completion call and
\* the transport answer (a value or an exception) in the end
FairJobSpec ==
    JobSpec /\ \A w \in JobWorkers : WF_vars(WorkerStep(w, Results, JobErrors))

---------------------------------------------------------------------------
(* Properties of one job (JobSpec, FairJobSpec)                            *)

\* JobSpec admits one job
JobIds ==
    { 1 }

Finished(j) ==
    /\ j <= Len(jobs)
    /\ jobs[j].status \in { "Completed", "Failed" }
    /\ jobs[j].done = 1

\* The attempts, sleeps and notices of a worker's job, in the order they
\* happened
retry_trace(w) ==
    SelectSeq(wk[w].trace,
              LAMBDA e : e.ev \in { "attempt", "sleep", "notice" })

SuccessBranches ==
    { "image", "tool_calls", "text" }

\* C1: every job a worker has claimed and taken into the try block is
\* eventually Completed or Failed and marked done exactly once, whatever the
\* completion call does (text, image path, tool calls, empty, None, raise).
C1_ClaimedJobFinishes ==
    \A j \in JobIds :
        (j <= Len(jobs) /\ jobs[j].status = "Executing") ~> Finished(j)

\* C2: the completion call is started at most MAX_RETRIES times for one job,
\* and a job that has ended is not in the queue again.
C2_AtMostThreeCalls ==
    \A w \in Workers :
        /\ Len(SelectSeq(wk[w].trace, LAMBDA e : e.ev = "attempt"))
               <= MAX_RETRIES
        /\ \A i \in 1..Len(job_queue) :
               jobs[job_queue[i]].status = "Queued"

\* C3: when the completion call raises on attempts 1 and 2 and returns a
\* result on attempt 3, for a job whose update carries a message: the result
\* is handled as a success, and up to there the worker made exactly three
\* attempts, slept exactly twice (2 s, then 4 s) and sent exactly two
\* retrying notices (2/3, 3/3), each sleep and notice between a failed attempt
\* and the next one; the job ends Completed unless the reply itself raises.
C3_TwoRetriesThenSuccess ==
    \A w \in Workers :
        ( /\ Len(wk[w].attempts) = 3
          /\ SubSeq(wk[w].attempts, 1, 2) = << "raise", "raise" >>
          /\ wk[w].attempts[3] \in SuccessBranches
          /\ jobs[wk[w].job].has_message )
        => /\ retry_trace(w) =
                 << Event("attempt", 1), Event("sleep", 2), Event("notice", 2),
                    Event("attempt", 2), Event("sleep", 4), Event("notice", 3),
                    Event("attempt", 3) >>
           /\ wk[w].branch = wk[w].attempts[3]
           /\ wk[w].retry_count = 2
           /\ wk[w].pc \in ReplyPcs \cup { "reply_error", "get", "dead" }
           /\ wk[w].error = << >> =>
                  /\ wk[w].pc \in ReplyPcs \cup { "get" }
                  /\ wk[w].pc = "get" => /\ jobs[wk[w].job].status = "Completed"
                                         /\ jobs[wk[w].job].done = 1

C3_Witness ==
    \E w \in Workers :
        /\ wk[w].attempts = << "raise", "raise", "text" >>
        /\ jobs[wk[w].job].has_message
        /\ wk[w].pc = "get"
        /\ jobs[wk[w].job].status = "Completed"

\* C4: when the completion call raises on all three attempts the job ends
\* in failure: the error branch is taken, the job becomes Failed and never
\* Completed, the usage counters of the user are what they were, and no
\* assistant turn is appended (the history of a text job ends with the
\* prompt of the third attempt).
C4_ExhaustedRetriesFail ==
    \A w \in Workers :
        wk[w].attempts = << "raise", "raise", "raise" >>
        => LET j == wk[w].job
               u == jobs[j].user_id
               messages == conversation_histories[u].messages
           IN  /\ wk[w].retry_count = MAX_RETRIES
               /\ wk[w].branch = "error"
               /\ wk[w].pc \in { "reply_error", "get", "dead" }
               /\ jobs[j].status # "Completed"
               /\ wk[w].pc \in { "get", "dead" } => /\ jobs[j].status = "Failed"
                                                    /\ jobs[j].done = 1
               /\ users_db[u] = wk[w].usage_at_claim
               /\ wk[w].inc_images = 0 /\ wk[w].inc_tokens = 0
               /\ wk[w].assistant_turns = 0
               /\ ~IsImageJob(j) =>
                      /\ messages # << >>
                      /\ messages[Len(messages)].role = "user"
                      /\ messages[Len(messages)].content = jobs[j].prompt

C4_Witness ==
    \E w \in Workers :
        /\ wk[w].attempts = << "raise", "raise", "raise" >>
        /\ wk[w].pc = "get"
        /\ jobs[wk[w].job].status = "Failed"
        /\ jobs[wk[w].job].has_message

(* CtxSpec: the context store called directly                              *)

CtxUserTexts ==
    { T_six, T_seven, T_cat, T_pig, T_ok, T_btw }

CtxAssistantTexts ==
    { R_text }

Call(op, user_id, role, content, new_keywords, ret, returned) ==
    [n |-> last.n + 1, op |-> op, user_id |-> user_id, role |-> role,
     content |-> content, new_keywords |-> new_keywords, ret |-> ret,
     returned |-> returned,
     before |-> IF user_id \in DOMAIN conversation_histories
                THEN conversation_histories[user_id].messages ELSE << >>,
     topics_before |-> topics_get(user_topics, user_id),
     had_topics |-> user_id \in DOMAIN user_topics,
     had_context |-> user_id \in DOMAIN conversation_histories,
     prev_op |-> last.op, prev_user |-> last.user_id]

\* add_to_conversation_history(user_id, role, content)
CtxAppend(user_id, role, content) ==
    /\ last.n < MaxOps
    /\ \E new_keywords \in extract_topic_keywords(content) :
         LET a == add_to_conversation_history(
                      conversation_histories, user_topics, user_id, role,
                      content, new_keywords, now)
         IN  /\ conversation_histories' = a.histories
             /\ user_topics' = a.topics
             /\ last' = Call("append", user_id, role, content, new_keywords,
                             a.ret, << >>)
    /\ UNCHANGED << now, users_db, jobs, job_queue, unfinished_tasks, wk,
                    gate,
                    bot_data >>

\* clear_user_context(user_id)
CtxClear(user_id) ==
    /\ last.n < MaxOps
    /\ LET c == clear_user_context(conversation_histories, user_topics,
                                   user_id)
       IN  /\ conversation_histories' = c.histories
           /\ user_topics' = c.topics
           /\ last' = Call("clear", user_id, "", << >>, {}, c.ret, << >>)
    /\ UNCHANGED << now, users_db, jobs, job_queue, unfinished_tasks, wk,
                    gate,
                    bot_data >>

\* get_conversation_history(user_id)
CtxGet(user_id) ==
    /\ last.n < MaxOps
    /\ LET g == get_conversation_history(conversation_histories, user_topics,
                                         user_id)
       IN  /\ conversation_histories' = g.histories
           /\ last' = Call("get", user_id, "", << >>, {}, None, g.ret)
    /\ UNCHANGED << user_topics, now, users_db, jobs, job_queue,
                    unfinished_tasks, wk, gate,
                    bot_data >>

InitCtx ==
    \E n \in 0..MaxPrefill, fine \in BOOLEAN : InitWith({}, n, fine)

NextCtx ==
    \/ Tick
    \/ \E u \in Users, content \in CtxUserTexts : CtxAppend(u, "user", content)
    \/ \E u \in Users, content \in CtxAssistantTexts :
          CtxAppend(u, "assistant", content)
    \/ \E u \in Users : CtxClear(u)
    \/ \E u \in Users : CtxGet(u)

CtxSpec ==
    InitCtx /\ [][NextCtx]_vars

---------------------------------------------------------------------------
(* Properties of the context store (CtxSpec)                               *)

\* The messages stored for a user
Stored(user_id) ==
    IF user_id \in DOMAIN conversation_histories
    THEN conversation_histories[user_id].messages
    ELSE << >>

\* The last call appended a user turn without an explicit reset phrase
PlainUserAppend ==
    /\ last.op = "append"
    /\ last.role = "user"
    /\ ~detect_explicit_topic_change(last.content)

\* msg is the turn the last call appended
IsNewTurn(msg) ==
    /\ msg.role = last.role
    /\ msg.content = last.content

\* The messages at the positions from i on that are among the last
\* RECENT_MESSAGES positions or share a keyword with current_keywords
RECURSIVE recent_or_overlapping(_, _, _)
recent_or_overlapping(messages, i, current_keywords) ==
    IF i > Len(messages) THEN << >>
    ELSE (IF \/ i > Len(messages) - RECENT_MESSAGES
             \/ messages[i].topic_keywords \cap current_keywords # {}
          THEN << messages[i] >> ELSE << >>)
         \o recent_or_overlapping(messages, i + 1, current_keywords)

\* C5: no user's stored history is ever longer than MAX_HISTORY_LENGTH, and
\* an append onto a full history that does not reset it leaves the other 11
\* messages in their order, without the oldest, followed by the new turn.
C5_BoundedFifo ==
    /\ \A u \in DOMAIN conversation_histories :
          Len(conversation_histories[u].messages) <= MAX_HISTORY_LENGTH
    /\ ( /\ last.op = "append"
         /\ Len(last.before) = MAX_HISTORY_LENGTH
         /\ last.ret = None )
       => LET messages == Stored(last.user_id)
          IN  /\ Len(messages) = MAX_HISTORY_LENGTH
              /\ SubSeq(messages, 1, MAX_HISTORY_LENGTH - 1) = Tail(last.before)
              /\ IsNewTurn(messages[MAX_HISTORY_LENGTH])

C5_Witness ==
    /\ last.op = "append"
    /\ Len(last.before) = MAX_HISTORY_LENGTH
    /\ last.ret = None
    /\ last.before[1] # last.before[2]

\* C6: with no tracked keywords get_conversation_history returns every
\* stored message once, in insertion order, and changes neither the stored
\* messages nor the tracked keywords.
C6_FullHistoryWithoutKeywords ==
    (last.op = "get" /\ last.topics_before = {})
    => /\ last.returned = simple_format(last.before)
       /\ Stored(last.user_id) = last.before
       /\ topics_get(user_topics, last.user_id) = {}
       /\ (last.user_id \in DOMAIN user_topics) = last.had_topics

C6_Witness ==
    /\ last.op = "get"
    /\ last.topics_before = {}
    /\ Len(last.before) > RECENT_MESSAGES
    /\ Len(last.returned) = Len(last.before)

\* C7: with tracked keywords get_conversation_history returns exactly the
\* messages at the last 4 positions plus every older message whose keywords
\* intersect the tracked set, in insertion order, each position once, also
\* when stored messages are equal to one another.
C7_RecentPlusOverlapping ==
    (last.op = "get" /\ last.topics_before # {})
    => last.returned =
           simple_format(
               recent_or_overlapping(last.before, 1, last.topics_before))

\* C8: a user turn with an explicit reset phrase always clears the context
\* and returns the explicit notification, whatever the keyword overlap and
\* however many messages are stored; afterwards the history is exactly the
\* new turn.
C8_ExplicitResetAlwaysClears ==
    ( /\ last.op = "append"
      /\ last.role = "user"
      /\ detect_explicit_topic_change(last.content) )
    => /\ last.ret = EXPLICIT_RESET_MESSAGE
       /\ Len(Stored(last.user_id)) = 1
       /\ IsNewTurn(Stored(last.user_id)[1])
       /\ Stored(last.user_id)[1].topic_keywords = last.new_keywords

C8_Witness ==
    /\ last.op = "append"
    /\ last.role = "user"
    /\ detect_explicit_topic_change(last.content)
    /\ Len(last.before) >= AUTO_RESET_MIN_MESSAGES
    /\ detect_topic_change(last.topics_before, last.new_keywords)
    /\ last.ret = EXPLICIT_RESET_MESSAGE

\* C9: a user turn without an explicit reset phrase, appended while fewer
\* than 4 messages are stored, never clears the context and never returns a
\* notification, whatever the keyword similarity.
C9_NoAutomaticResetBelowFour ==
    (PlainUserAppend /\ Len(last.before) < AUTO_RESET_MIN_MESSAGES)
    => /\ last.ret = None
       /\ Len(Stored(last.user_id)) = Len(last.before) + 1
       /\ SubSeq(Stored(last.user_id), 1, Len(last.before)) = last.before
       /\ IsNewTurn(Stored(last.user_id)[Len(last.before) + 1])

C9_Witness ==
    /\ PlainUserAppend
    /\ Len(last.before) \in 1..(AUTO_RESET_MIN_MESSAGES - 1)
    /\ last.topics_before \cap last.new_keywords = {}
    /\ detect_topic_change(last.topics_before, last.new_keywords)
    /\ last.ret = None

\* C10: for a user turn without an explicit reset phrase and with a
\* non-empty tracked keyword set, the context is cleared and the automatic
\* notification returned if and only if |tracked \cap new| / |tracked \cup new|
\* is below 0.3 and at least 4 messages are stored, a new turn without any
\* keyword (similarity 0) included.
C10_AutomaticResetIffBelowThreshold ==
    (PlainUserAppend /\ last.topics_before # {})
    => LET intersection == Cardinality(last.topics_before \cap last.new_keywords)
           union == Cardinality(last.topics_before \cup last.new_keywords)
           cleared == /\ last.ret = AUTOMATIC_RESET_MESSAGE
                      /\ Len(Stored(last.user_id)) = 1
       IN  /\ last.ret \in { None, AUTOMATIC_RESET_MESSAGE }
           /\ cleared <=> ( /\ 10 * intersection < 3 * union
                            /\ Len(last.before) >= AUTO_RESET_MIN_MESSAGES )
           /\ ~cleared => /\ last.ret = None
                          /\ Len(Stored(last.user_id)) > 1

\* C11: an assistant turn never clears the history, never returns a
\* notification and leaves the user's tracked keywords as they were; a user
\* turn replaces the tracked keywords by exactly the keywords extracted from
\* the new message.
C11_OnlyUserTurnsTouchTopics ==
    /\ (last.op = "append" /\ last.role = "assistant")
       => /\ last.ret = None
          /\ Stored(last.user_id) =
                 deque_append(last.before,
                              Stored(last.user_id)[Len(Stored(last.user_id))])
          /\ IsNewTurn(Stored(last.user_id)[Len(Stored(last.user_id))])
          /\ topics_get(user_topics, last.user_id) = last.topics_before
          /\ (last.user_id \in DOMAIN user_topics) = last.had_topics
    /\ (last.op = "append" /\ last.role = "user")
       => /\ last.user_id \in DOMAIN user_topics
          /\ user_topics[last.user_id] = last.new_keywords
          /\ last.new_keywords \in extract_topic_keywords(last.content)

C11_Witness ==
    /\ last.op = "append"
    /\ last.role = "assistant"
    /\ Len(last.before) >= AUTO_RESET_MIN_MESSAGES
    /\ last.topics_before # {}
    /\ \E kw \in extract_topic_keywords(last.content) :
          detect_topic_change(last.topics_before, kw)
    /\ Len(Stored(last.user_id)) > Len(last.before)

\* C12: clear_user_context returns False for a user without a context; for
\* a user with at least one stored message it returns True, and a
\* get_conversation_history right after it returns the empty list.
C12_ClearReturnsAndEmpties ==
    last.op = "clear"
    => /\ ~last.had_context => last.ret = FALSE
       /\ Len(last.before) >= 1 =>
             /\ last.ret = TRUE
             /\ get_conversation_history(conversation_histories, user_topics,
                                         last.user_id).ret = << >>
             /\ Stored(last.user_id) = << >>

C12_Witness ==
    /\ last.op = "clear"
    /\ Len(last.before) >= 1
    /\ last.topics_before # {}
    /\ last.ret = TRUE

---------------------------------------------------------------------------
(* Spec: the worker pool on one queue, text messages of two users          *)
(* The model call answers with text; a job fails when its reply cannot be  *)
(* sent. The retry loop of one job is followed in JobSpec.                 *)

PoolWorkers ==
    1..PoolSize

PoolPrompts ==
    { T_cats }

PoolResults ==
    { StrResult(R_text) }

\* smart_handler: a text message, with the default tool list
AdmitText(users, prompts) ==
    \E u \in users, text \in prompts :
       Enqueue(u, text, {"web_search", "code_interpreter"}, TRUE, FALSE)

Init ==
    InitWith(PoolWorkers, 0, FALSE)

Next ==
    \/ Len(jobs) < MaxJobs /\ AdmitText(Users, PoolPrompts)
    \/ \E w \in Workers : ClaimLookupFails(w)
    \/ \E w \in Workers : Claim(w)
    \/ \E w \in Workers, result \in PoolResults : Returns(w, result)
    \/ \E w \in Workers : ReplyDelivered(w)
    \/ \E w \in Workers, err \in JobErrors : ReplyFails(w, err)
    \/ \E w \in Workers : ErrorReplyDelivered(w)

Spec ==
    Init /\ [][Next]_vars

\* The workers that hold job j: they claimed it and it is not marked done
Holders(j) ==
    { w \in Workers : wk[w].job = j /\ jobs[j].done = 0 }

\* The jobs a worker has claimed and not finished
InProgress ==
    { j \in 1..Len(jobs) : jobs[j].status \in { "Claimed", "Executing" } }

\* C13: every job is claimed at most once and held by at most one worker;
\* a job is in the queue exactly while nobody has claimed it, and is marked
\* done at most once.
C13_ClaimedAtMostOnce ==
    \A j \in 1..Len(jobs) :
        /\ jobs[j].claims <= 1
        /\ jobs[j].done <= jobs[j].claims
        /\ Cardinality(Holders(j)) <= 1
        /\ (jobs[j].claims = 0) <=> (jobs[j].status = "Queued")
        /\ Cardinality({ i \in 1..Len(job_queue) : job_queue[i] = j })
              = IF jobs[j].claims = 0 THEN 1 ELSE 0

C13_Witness ==
    \E w1, w2 \in Workers :
        /\ w1 # w2
        /\ wk[w1].pc = "to_thread" /\ wk[w2].pc = "to_thread"
        /\ wk[w1].job # wk[w2].job
        /\ job_queue # << >>

\* C14: jobs are claimed in the order they were enqueued: a job is not
\* claimed while a job enqueued before it is still unclaimed (jobs may end
\* in another order).
C14_ClaimedInQueueOrder ==
    \A a, b \in 1..Len(jobs) :
        (a < b /\ jobs[b].claims > 0) => jobs[a].claims > 0

C14_Witness ==
    /\ Len(jobs) >= 2
    /\ jobs[1].status = "Executing"
    /\ jobs[2].status = "Completed"

\* C15: at most as many jobs are Claimed or Executing as there are workers;
\* each of them is held by exactly one worker, a busy worker holds one job
\* in progress, and a worker back at queue.get() has marked its previous
\* job done.
C15_OneJobPerWorker ==
    /\ Cardinality(InProgress) <= Cardinality(Workers)
    /\ \A j \in InProgress : Cardinality(Holders(j)) = 1
    /\ \A w \in Workers :
          /\ wk[w].pc \notin { "get", "dead" } => wk[w].job \in InProgress
          /\ (wk[w].pc = "get" /\ wk[w].job # 0) =>
                 /\ jobs[wk[w].job].done = 1
                 /\ jobs[wk[w].job].status \in { "Completed", "Failed" }

C15_Witness ==
    /\ Cardinality(InProgress) = Cardinality(Workers)
    /\ \E j \in 1..Len(jobs) : jobs[j].done = 1
    /\ \A w \in Workers : wk[w].pc = "to_thread"

---------------------------------------------------------------------------
(* GateSpec: queue_job_handler alone, for users at and around their limits   *)

\* Values of a usage counter around a plan's limit
Counters(limit) ==
    IF limit = UNLIMITED THEN { 0, 1 } ELSE { 0, limit - 1, limit, limit + 1 }

\* The plan of a row: PLANS.get(plan_name, PLANS['free'])
plan_of(plan_name) ==
    IF plan_name \in DOMAIN PLANS THEN PLANS[plan_name] ELSE PLANS["free"]

\* Rows of the users table: the three plans and a plan name PLANS lacks
PlanNames ==
    { "free", "premium", "premium_plus", "gold" }

UserRows ==
    UNION { { [plan_name |-> p, daily_images_used |-> i, daily_tokens_used |-> t] :
                i \in Counters(plan_of(p).daily_images),
                t \in Counters(plan_of(p).daily_tokens_limit) } : p \in PlanNames }

\* Capability lists of /image, /search and of plain chat
GateToolLists ==
    { {"image_generation"}, {"web_search"},
      {"web_search", "code_interpreter"} }

T_blank ==
    <<" "," ">>

T_test ==
    <<"t","e","s","t">>

\* Texts of the updates: accepted after normalisation, blank, low-content,
\* and none
GateTexts ==
    { T_spaced, T_blank, T_test, << >> }

InitGate ==
    \E row \in UserRows :
        /\ conversation_histories = EmptyDict
        /\ user_topics = EmptyDict
        /\ now = 0
        /\ last = NoCall
        /\ users_db = [u \in Users |-> IF u \in JobUsers THEN row ELSE NewUser]
        /\ jobs = << >>
        /\ job_queue = << >>
        /\ unfinished_tasks = 0
        /\ wk = << >>
        /\ gate = NoAnswer
        /\ bot_data = NoModes

\* One update reaches queue_job_handler; one job is let into the queue
NextGate ==
    /\ \E u \in JobUsers, text \in GateTexts, tools \in GateToolLists,
          has_message \in BOOLEAN, is_command \in BOOLEAN :
          Enqueue(u, text, tools, has_message, is_command)
    /\ Len(jobs') <= 1

GateSpec ==
    InitGate /\ [][NextGate]_vars

\* The raw prompt queue_job_handler validates for the update gate records
raw_prompt_of(g) ==
    LET given == IF g.is_command THEN join(split(g.text, 1))
                 ELSE IF g.has_message THEN g.text ELSE << >>
    IN  IF given = << >> THEN T_hello ELSE given

\* The quota rule: the counter of the requested capability has reached a
\* limit that is not -1
over_quota(row, tools) ==
    IF "image_generation" \in tools
    THEN /\ plan_of(row.plan_name).daily_images # UNLIMITED
         /\ row.daily_images_used >= plan_of(row.plan_name).daily_images
    ELSE /\ plan_of(row.plan_name).daily_tokens_limit # UNLIMITED
         /\ row.daily_tokens_used >= plan_of(row.plan_name).daily_tokens_limit

C17_QuotaByCapability ==
    gate.outcome # "none" =>
        LET row == users_db[gate.user_id]
            plan == plan_of(row.plan_name)
        IN  IF "image_generation" \in gate.tools
            THEN (gate.outcome = "quota") <=>
                    /\ plan.daily_images # UNLIMITED
                    /\ row.daily_images_used >= plan.daily_images
            ELSE (gate.outcome = "quota") <=>
                    /\ plan.daily_tokens_limit # UNLIMITED
                    /\ row.daily_tokens_used >= plan.daily_tokens_limit

\* A user out of images and within the token limit is refused an image and
\* would be served text
C17_Witness ==
    /\ gate.outcome = "quota"
    /\ "image_generation" \in gate.tools
    /\ users_db[gate.user_id].daily_tokens_used = 0
    /\ check_user_limits(users_db[gate.user_id], {"web_search"}).can_proceed

---------------------------------------------------------------------------
(* ValidateSpec: validate_and_sanitize_input applied to texts               *)

Alphabet ==
    { "a", "A", "1", "x", " " }

ShortTexts ==
    UNION { [1..n -> Alphabet] : n \in 0..MaxTextLen }

\* Every LongWord-th character of a long text is a space
LongWord ==
    1001

\* n characters: words of `word` equal letters, or of alternating letters
\* when `word` is 0, separated by single spaces
long_text(n, word, period) ==
    [i \in 1..n |-> IF i % period = 0 THEN " "
                    ELSE IF word # 0 \/ i % 2 = 0 THEN "a" ELSE "b"]

T_test_me ==
    <<"T","e","s","t"," ","m","e">>

T_tests ==
    <<"t","e","s","t","s">>

T_spam ==
    <<"s","p","a","m","!">>

\* 19 characters
T_a_test_19 ==
    <<"a"," ","t","e","s","t"," ","o","f"," ","t","h","e"," ","t","h","i","n","g">>

\* 20 characters
T_a_test_20 ==
    T_a_test_19 \o <<"s">>

\* Texts at the limits: 20 and 21 equal characters, 3999..4001 characters
\* of short words, more than 4000 characters that normalise to 4000, and
\* more than 4000 characters in runs of 1000 equal characters
LimitTexts ==
    { long_text(REPEAT_RUN_LENGTH - 1, 1, LongWord), long_text(REPEAT_RUN_LENGTH, 1, LongWord),
      long_text(MAX_INPUT_LENGTH - 1, 0, LongWord), long_text(MAX_INPUT_LENGTH, 0, LongWord),
      long_text(MAX_INPUT_LENGTH + 1, 0, LongWord),
      <<" "," ">> \o long_text(MAX_INPUT_LENGTH, 0, LongWord),
      long_text(MAX_INPUT_LENGTH + 1, 1, LongWord), long_text(MAX_INPUT_LENGTH, 1, LongWord),
      T_test_me, T_tests, T_spam, T_test, T_a_test_19, T_a_test_20 }

ValidateTexts ==
    ShortTexts \cup LimitTexts

\* is_valid, cleaned, error = validate_and_sanitize_input(text), applied to
\* one text in a behaviour
Validate(text) ==
    /\ gate = NoAnswer
    /\ gate' = [outcome |-> "validated", text |-> text,
                result |-> validate_and_sanitize_input(text, MAX_INPUT_LENGTH)]
    /\ UNCHANGED << conversation_histories, user_topics, now, last, users_db,
                    jobs, job_queue, unfinished_tasks, wk,
                    bot_data >>

InitValidate ==
    InitWith({}, 0, FALSE)

NextValidate ==
    \E text \in ValidateTexts : Validate(text)

ValidateSpec ==
    InitValidate /\ [][NextValidate]_vars

\* A run of at least REPEAT_RUN_LENGTH equal characters
has_long_run(text) ==
    \E i \in 1..Len(text) :
        /\ i + REPEAT_RUN_LENGTH - 1 <= Len(text)
        /\ \A n \in 0..(REPEAT_RUN_LENGTH - 1) : text[i + n] = text[i]

\* C18: validation decides in this order: blank -> Empty Input; normalised
\* length above 4000 -> Input Too Long; below 3 -> Input Too Short; a run of
\* 21 equal characters, or a low-content token in a text under 20
\* characters -> Invalid Input; otherwise accepted with the normalised text.
\* A rejection returns an empty cleaned text and a non-empty reason.
C18_ValidationOrder ==
    gate.outcome = "validated" =>
        LET text == gate.text
            r == gate.result
            norm == join(split(text, 1))
            expected ==
                IF \A i \in 1..Len(text) : text[i] \in Whitespace
                THEN "Empty Input"
                ELSE IF Len(norm) > MAX_INPUT_LENGTH THEN "Input Too Long"
                ELSE IF Len(norm) < MIN_INPUT_LENGTH THEN "Input Too Short"
                ELSE IF \/ has_long_run(norm)
                        \/ Len(norm) < SHORT_MESSAGE_LENGTH /\ low_content_match(norm)
                THEN "Invalid Input"
                ELSE ""
        IN  /\ r.error_message = expected
            /\ r.is_valid <=> (expected = "")
            /\ r.is_valid => r.cleaned = norm
            /\ ~r.is_valid => (r.cleaned = << >> /\ r.error_message # "")

\* A text that is both too long and full of long runs is rejected for its
\* length
C18_Witness ==
    /\ gate.outcome = "validated"
    /\ Len(gate.text) > MAX_INPUT_LENGTH
    /\ has_long_run(gate.text)
    /\ gate.result.error_message = "Input Too Long"

---------------------------------------------------------------------------
(* JobSpec: the branch that handles a result, and the order of the replies   *)

\* The messages a dict of contexts holds for a user
messages_of(histories, user_id) ==
    IF user_id \in DOMAIN histories THEN histories[user_id].messages
    ELSE << >>

\* The three kinds of a successful result: a path of an image file, a
\* request for tool calls, a text
kind_of(result) ==
    IF result.type = "str" /\ EndsWithPng(result.text) THEN "image"
    ELSE IF result.type = "dict" THEN "tool_calls"
    ELSE "text"

\* The step in which worker w takes a result into one of the three branches
HandlesResult(w) ==
    /\ wk[w].pc = "to_thread"
    /\ wk[w].branch = "none"
    /\ wk'[w].branch \in SuccessBranches

\* messages is `before` with one assistant turn of this content appended
OneAssistantTurn(before, messages, content) ==
    /\ messages # << >>
    /\ messages[Len(messages)].role = "assistant"
    /\ messages[Len(messages)].content = content
    /\ messages = deque_append(before, messages[Len(messages)])

\* C19: a successful result is handled by exactly one branch, the one of
\* its kind.  Image: image counter +1, token counter and history unchanged,
\* and the file is deleted when the reply was attempted.  Tool calls: one
\* assistant turn appended, the user's row unchanged.  Text: token counter
\* increased by the estimate, one assistant turn appended, image counter
\* unchanged.
C19_OneBranchPerResult ==
    [][ \A w \in DOMAIN wk :
          LET r == wk'[w]
              u == jobs[wk[w].job].user_id
              row == users_db[u]
              before == messages_of(conversation_histories, u)
              after == messages_of(conversation_histories', u)
          IN  /\ HandlesResult(w) =>
                  /\ r.branch = kind_of(r.result)
                  /\ r.branch = "image" =>
                        /\ users_db'[u] = [row EXCEPT !.daily_images_used = @ + 1]
                        /\ conversation_histories' = conversation_histories
                        /\ user_topics' = user_topics
                        /\ r.artifact = "present" <=> r.pc = "reply_photo"
                        /\ r.artifact \in { "present", "deleted" }
                  /\ r.branch = "tool_calls" =>
                        /\ users_db' = users_db
                        /\ OneAssistantTurn(before, after, TOOL_RESPONSE_TEXT)
                        /\ r.artifact = "none"
                  /\ r.branch = "text" =>
                        /\ users_db'[u] =
                              [row EXCEPT !.daily_tokens_used =
                                  @ + (Len(prompt_to_send(wk[w].job)) \div 4)
                                    + (Len(r.result.text) \div 4)]
                        /\ OneAssistantTurn(before, after, r.result.text)
                        /\ r.artifact = "none"
              /\ (wk[w].artifact = "present" /\ wk[w].pc = "reply_photo"
                    /\ r.pc # "reply_photo") => r.artifact = "deleted"
              /\ (wk[w].branch \in SuccessBranches /\ r.job = wk[w].job) =>
                  /\ r.branch = wk[w].branch
                  /\ users_db' = users_db
                  /\ conversation_histories' = conversation_histories ]_vars

\* An image was delivered: the counter moved by one and the file is gone
C19_Witness ==
    \E w \in Workers :
        /\ wk[w].branch = "image"
        /\ wk[w].pc = "get"
        /\ wk[w].artifact = "deleted"
        /\ Finished(wk[w].job)
        /\ jobs[wk[w].job].status = "Completed"
        /\ users_db[jobs[wk[w].job].user_id].daily_images_used
              = wk[w].usage_at_claim.daily_images_used + 1
        /\ users_db[jobs[wk[w].job].user_id].daily_tokens_used
              = wk[w].usage_at_claim.daily_tokens_used

\* Positions of an event in a worker's trace
positions(w, ev) ==
    { i \in 1..Len(wk[w].trace) : wk[w].trace[i].ev = ev }

\* C20: when an append of the job's prompt returned a context-reset
\* notification and the text reply of the job was sent, the notification
\* was sent before it, also after failed attempts of the same job.
C20_ResetNoticeBeforeReply ==
    \A w \in Workers :
        (/\ wk[w].reset_produced # None
         /\ wk[w].branch = "text"
         /\ positions(w, "reply_text") # {})
        => \E i \in positions(w, "reply_reset") :
              /\ \A k \in positions(w, "reply_text") : i < k
              /\ wk[w].context_reset_message = wk[w].reset_produced

\* The replies a worker delivered to the requester for its job
ReplyEvents ==
    ReplyPcs \cup { "reply_error", "notice" }

replies_delivered(w) ==
    { i \in 1..Len(wk[w].trace) : wk[w].trace[i].ev \in ReplyEvents }

\* C21: a job whose update carries a message is not marked done before a
\* reply was delivered to the requester, whatever the completion call
\* returned or raised (a worker whose last send raised is left aside).
C21_NoSilentEnd ==
    \A w \in Workers :
        (/\ wk[w].pc = "get"
         /\ wk[w].job # 0
         /\ jobs[wk[w].job].has_message
         /\ jobs[wk[w].job].done = 1)
        => replies_delivered(w) # {}

---------------------------------------------------------------------------
(* RaceSpec: two jobs of one user in a pool of workers; the first attempt   *)
(* of a job may return None                                                *)

RaceJobs ==
    2

RacePrompts ==
    { T_cats, T_pig }

InitRace ==
    InitWith(PoolWorkers, 0, FALSE)

NextRace ==
    \/ Len(jobs) < RaceJobs /\ AdmitText(JobUsers, RacePrompts)
    \/ \E w \in Workers : Claim(w)
    \/ \E w \in Workers : wk[w].attempts = << >> /\ ReturnsNone(w)
    \/ \E w \in Workers, result \in PoolResults : Returns(w, result)
    \/ \E w \in Workers : ReplyDelivered(w)

RaceSpec ==
    InitRace /\ [][NextRace]_vars

\* The jobs of a user whose prompt is this text
jobs_with(user_id, content) ==
    { j \in 1..Len(jobs) : jobs[j].user_id = user_id /\ jobs[j].prompt = content }

\* C22: the user turns stored for a user stand in the order in which their
\* jobs were admitted: no turn of a later job stands before a turn of an
\* earlier job.
C22_UserTurnsInAdmissionOrder ==
    \A u \in DOMAIN conversation_histories :
        LET m == conversation_histories[u].messages
        IN  \A i, k \in 1..Len(m) :
               (i < k /\ m[i].role = "user" /\ m[k].role = "user")
               => \E a \in jobs_with(u, m[i].content), b \in jobs_with(u, m[k].content) :
                     a <= b

\* C23: the assistant turn of a job is appended directly after the user
\* turn of that job.
C23_AssistantFollowsOwnPrompt ==
    \A w \in Workers :
        (wk[w].branch \in { "text", "tool_calls" } /\ wk[w].job # 0)
        => wk[w].preceding = [role |-> "user", content |-> jobs[wk[w].job].prompt]

---------------------------------------------------------------------------
(* JobSpec: what a job writes to the context store                          *)

\* What send_prompt returns for a job with image_generation: the path of
\* the image file, or None
is_image_outcome(result) ==
    \/ result.type = "NoneType"
    \/ result.type = "str" /\ EndsWithPng(result.text)

\* C24: when a worker awaits the completion call of a job without
\* image-generation, the newest stored turn is the job's prompt as a user
\* turn; no step of a job with image-generation changes the stored
\* messages or the tracked keywords, whether the call returns an image,
\* returns None or raises.
C24_PromptAppendedBeforeCall ==
    [][ \A w \in DOMAIN wk :
          LET r == wk'[w]
              u == jobs'[r.job].user_id
              with_image == "image_generation" \in jobs'[r.job].tools
          IN  r.job # 0 =>
                /\ (~with_image /\ r.pc = "to_thread") =>
                      /\ last_turn(conversation_histories', u)
                            = [role |-> "user", content |-> jobs'[r.job].prompt]
                      /\ r.user_turns >= 1
                /\ (with_image /\ is_image_outcome(r.result)) =>
                      /\ messages_of(conversation_histories', u)
                            = messages_of(conversation_histories, u)
                      /\ user_topics' = user_topics
                      /\ r.user_turns = 0 /\ r.assistant_turns = 0 ]_vars

\* An image job ended, delivered or failed, over a stored conversation
C24_Witness ==
    \E w \in Workers :
        /\ wk[w].job # 0
        /\ "image_generation" \in jobs[wk[w].job].tools
        /\ Finished(wk[w].job)
        /\ wk[w].branch \in { "image", "error" }
        /\ Len(Stored(jobs[wk[w].job].user_id)) = AUTO_RESET_MIN_MESSAGES
        /\ last_turn(conversation_histories, jobs[wk[w].job].user_id).role = "assistant"

---------------------------------------------------------------------------
(* The pool: live workers                                                   *)

\* The worker tasks that still run their claim loop
live_workers ==
    { w \in Workers : wk[w].pc # "dead" }

\* C26: every worker task started with the pool still runs: as many live
\* workers as the pool was started with, in every reachable state.
C26_AllWorkersLive ==
    Cardinality(live_workers) = Cardinality(Workers)

---------------------------------------------------------------------------
(* The pool under fair scheduling                                           *)

\* The steps of one worker task of the pool
PoolStep(w) ==
    \/ ClaimLookupFails(w)
    \/ Claim(w)
    \/ \E result \in PoolResults : Returns(w, result)
    \/ ReplyDelivered(w)
    \/ \E err \in JobErrors : ReplyFails(w, err)
    \/ ErrorReplyDelivered(w)

\* The event loop runs every worker task that can take a step
FairSpec ==
    Spec /\ \A w \in PoolWorkers : WF_vars(PoolStep(w))

\* C25: under fair scheduling every job in the queue is eventually taken
\* from it by some worker.
C25_QueuedJobIsClaimed ==
    \A j \in 1..MaxJobs :
        (j <= Len(jobs) /\ jobs[j].status = "Queued")
            ~> (j <= Len(jobs) /\ jobs[j].claims > 0)

---------------------------------------------------------------------------
(* FailSpec: one job whose completion call raises on every attempt          *)

E_Rate_Limit ==
    <<"R","a","t","e"," ","L","i","m","i","t">>

E_TIMEOUT ==
    <<"T","I","M","E","O","U","T">>

E_Unauthorized ==
    <<"U","n","a","u","t","h","o","r","i","z","e","d">>

\* The words an exception text is made of
ErrorWords ==
    { M_rate_limit, M_api_key, M_unauthorized, M_timeout, M_network,
      M_connection, E_Rate_Limit, E_TIMEOUT, E_Unauthorized, E_boom }

\* str(e): one word, or two words in either order
FailErrors ==
    ErrorWords \cup { a \o <<" ">> \o b : a, b \in ErrorWords }

InitFail ==
    InitWith(JobWorkers, 0, FALSE)

NextFail ==
    \/ jobs = << >> /\ Admit(JobUsers, { T_cats })
    \/ \E w \in Workers : Claim(w)
    \/ \E w \in Workers, err \in FailErrors : Raises(w, err)
    \/ \E w \in Workers : SleepDone(w)
    \/ \E w \in Workers : NoticeDelivered(w)
    \/ \E w \in Workers : ErrorReplyDelivered(w)
    \/ \E w \in Workers : ErrorReplyFails(w)

FailSpec ==
    InitFail /\ [][NextFail]_vars

\* The category the precedence rate-limit, auth, timeout, network, unknown
\* gives a text, each category stated by what the lower-cased text holds
category_by_precedence(err) ==
    LET t == lower(err)
        rate == Contains(t, M_rate_limit)
        auth == Contains(t, M_api_key) \/ Contains(t, M_unauthorized)
        time == Contains(t, M_timeout)
        net == Contains(t, M_network) \/ Contains(t, M_connection)
    IN  CHOOSE c \in { "rate_limit", "auth", "timeout", "network", "unknown" } :
            /\ (c = "rate_limit") = rate
            /\ (c = "auth") = (~rate /\ auth)
            /\ (c = "timeout") = (~rate /\ ~auth /\ time)
            /\ (c = "network") = (~rate /\ ~auth /\ ~time /\ net)
            /\ (c = "unknown") = (~rate /\ ~auth /\ ~time /\ ~net)

error_replies(w) ==
    SelectSeq(wk[w].trace, LAMBDA e : e.ev = "reply_error")

\* C27: when a job fails for good, the message built for it is the one of
\* the first category in the order rate-limit, auth, timeout, network,
\* unknown that the lower-cased error text matches; for a job whose update
\* carries a message that message is sent once, and exactly once when the
\* reply is delivered.
C27_OneCategoryByPrecedence ==
    \A w \in Workers :
        wk[w].job # 0 =>
          /\ Len(error_replies(w)) <= 1
          /\ (wk[w].pc = "reply_error" \/ jobs[wk[w].job].status = "Failed") =>
                /\ wk[w].error_msg = category_by_precedence(wk[w].error)
                /\ (/\ jobs[wk[w].job].status = "Failed"
                     /\ jobs[wk[w].job].has_message
                     /\ wk[w].pc # "dead") => Len(error_replies(w)) = 1

\* A failure whose text matches two categories, timeout named first, was
\* answered with the authentication message
C27_Witness ==
    \E w \in Workers :
        /\ wk[w].job # 0
        /\ jobs[wk[w].job].status = "Failed"
        /\ wk[w].error = E_TIMEOUT \o <<" ">> \o M_api_key
        /\ wk[w].error_msg = "auth"
        /\ Len(error_replies(w)) = 1

---------------------------------------------------------------------------
(* CtxSpec: the keyword sets, clear, and keyword extraction                 *)

\* get_context_stats(user_id)["topic_keywords"]: len(context.topic_keywords)
stats_topic_keywords(histories, user_id) ==
    IF user_id \in DOMAIN histories
    THEN Cardinality(histories[user_id].topic_keywords)
    ELSE 0

\* C28: after any appends and clears neither keyword set of a user, the
\* tracked one and the one the context holds, has more than 10 entries.
C28_KeywordSetsCapped ==
    \A u \in Users :
        /\ Cardinality(topics_get(user_topics, u)) <= MAX_KEYWORDS
        /\ stats_topic_keywords(conversation_histories, u) <= MAX_KEYWORDS

\* C29: clear_user_context returns True exactly when the user had a stored
\* message or a tracked keyword at the time of the call.
C29_ClearTellsWhetherCleared ==
    last.op = "clear" =>
        (last.ret = TRUE) = (last.before # << >> \/ last.topics_before # {})

(* ExtractSpec: extract_topic_keywords applied to one text                  *)

MaxWords ==
    12

\* Thirteen words that are no stopwords
Animals ==
    << <<"c","a","t">>,
       <<"d","o","g">>,
       <<"o","w","l">>,
       <<"f","o","x">>,
       <<"b","e","e">>,
       <<"a","n","t">>,
       <<"e","l","k">>,
       <<"e","m","u">>,
       <<"y","a","k">>,
       <<"h","e","n">>,
       <<"p","i","g">>,
       <<"r","a","t">>,
       <<"b","a","t">> >>

\* The first n words of Animals, as they stand or after "The Cat"
ExtractTexts ==
    { join(SubSeq(Animals, 1, n)) : n \in 0..MaxWords }
        \cup { T_cat \o <<" ">> \o join(SubSeq(Animals, 1, n)) : n \in 0..MaxWords }

\* keywords = extract_topic_keywords(text), applied to one text in a
\* behaviour: any of the sets the call can return
Extract(text) ==
    /\ last = NoCall
    /\ \E keywords \in extract_topic_keywords(text) :
          last' = Call("extract", 0, "", text, keywords, None, << >>)
    /\ UNCHANGED << conversation_histories, user_topics, now, users_db, jobs,
                    job_queue, unfinished_tasks, wk, gate,
                    bot_data >>

InitExtract ==
    InitWith({}, 0, FALSE)

NextExtract ==
    \E text \in ExtractTexts : Extract(text)

ExtractSpec ==
    InitExtract /\ [][NextExtract]_vars

\* The first MAX_KEYWORDS distinct tokens of the lower-cased text that are
\* no stopwords, in order of appearance
first_keywords(text) ==
    LET tokens == SelectSeq(findall_words(lower(text), 1),
                            LAMBDA w : w \notin stopwords)
    IN  { tokens[i] : i \in { k \in 1..Len(tokens) :
              Cardinality({ tokens[n] : n \in 1..k }) <= MAX_KEYWORDS } }

\* C30: extract_topic_keywords returns, for a text, the set of its first 10
\* distinct lower-cased letter-only tokens of length 3 or more that are no
\* stopwords, in order of appearance, on every run.
C30_FirstTenInOrder ==
    last.op = "extract" => last.new_keywords = first_keywords(last.content)

---------------------------------------------------------------------------
(* CtxSpec: the reset threshold                                             *)

\* The Jaccard similarity of two keyword sets is exactly 3/10
similarity_is_three_tenths(old_keywords, new_keywords) ==
    /\ old_keywords \cup new_keywords # {}
    /\ 10 * Cardinality(old_keywords \cap new_keywords)
          = 3 * Cardinality(old_keywords \cup new_keywords)

\* C31: a user-role append without a reset phrase whose keywords have a
\* Jaccard similarity of exactly 0.3 to the tracked ones does not reset the
\* context, also with 4 or more stored messages.
C31_NoResetAtThreshold ==
    (/\ PlainUserAppend
     /\ Len(last.before) >= AUTO_RESET_MIN_MESSAGES
     /\ similarity_is_three_tenths(last.topics_before, last.new_keywords))
    => /\ last.ret = None
       /\ Len(Stored(last.user_id)) > 1

---------------------------------------------------------------------------
(* ChunkSpec: send_long_message applied to one text                         *)

\* The limit the texts of ChunkSpec are split at (the max_length argument)
ChunkLimit ==
    8

MaxLines ==
    4

\* The backquote character, written "^" in the texts of the model
BACKQUOTE ==
    "^"

\* Three backquotes: the mark of a fenced code block
FENCE ==
    << BACKQUOTE, BACKQUOTE, BACKQUOTE >>

NEWLINE ==
    <<"\n">>

\* text.split('\n'): the pieces between newlines, at least one
RECURSIVE split_lines(_)
split_lines(text) ==
    IF \A i \in 1..Len(text) : text[i] # "\n" THEN << text >>
    ELSE LET n == CHOOSE i \in 1..Len(text) :
                      /\ text[i] = "\n"
                      /\ \A k \in 1..(i - 1) : text[k] # "\n"
         IN  << SubSeq(text, 1, n - 1) >>
                 \o split_lines(SubSeq(text, n + 1, Len(text)))

\* str.rstrip()
rstrip(text) ==
    LET keep == { i \in 1..Len(text) : text[i] \notin Whitespace }
    IN  IF keep = {} THEN << >>
        ELSE SubSeq(text, 1, CHOOSE i \in keep : \A k \in keep : k <= i)

\* line.startswith(FENCE)
is_fence_line(line) ==
    Len(line) >= 3 /\ SubSeq(line, 1, 3) = FENCE

\* One pass of the loop over lines (lines 141-154)
chunk_step(st, line, max_length) ==
    LET in_code_block == IF is_fence_line(line) THEN ~st.in_code_block
                         ELSE st.in_code_block
    IN  IF Len(st.current_part \o line \o NEWLINE) > max_length
           /\ st.current_part # << >>
        THEN IF in_code_block
             THEN [parts |-> Append(st.parts, st.current_part \o NEWLINE \o FENCE),
                   current_part |-> FENCE \o NEWLINE \o line \o NEWLINE,
                   in_code_block |-> in_code_block]
             ELSE [parts |-> Append(st.parts, rstrip(st.current_part)),
                   current_part |-> line \o NEWLINE,
                   in_code_block |-> in_code_block]
        ELSE [parts |-> st.parts,
              current_part |-> st.current_part \o line \o NEWLINE,
              in_code_block |-> in_code_block]

RECURSIVE chunk_loop(_, _, _, _)
chunk_loop(st, lines, i, max_length) ==
    IF i > Len(lines) THEN st
    ELSE chunk_loop(chunk_step(st, lines[i], max_length), lines, i + 1,
                    max_length)

\* send_long_message: the texts handed to send_formatted_message, in order
send_long_message(text, max_length) ==
    IF Len(text) <= max_length THEN << text >>
    ELSE LET st == chunk_loop([parts |-> << >>, current_part |-> << >>,
                               in_code_block |-> FALSE],
                              split_lines(text), 1, max_length)
         IN  IF ~IsBlank(st.current_part)
             THEN Append(st.parts, rstrip(st.current_part))
             ELSE st.parts

\* send_formatted_message returns without sending when not text.strip()
chunks_sent(parts) ==
    SelectSeq(parts, LAMBDA p : ~IsBlank(p))

\* n times the character c
run_of(c, n) ==
    [i \in 1..n |-> c]

\* The lines a text is made of: empty, blank, short, a fence with and
\* without a language tag, and a line longer than the limit
ChunkLines ==
    { << >>, <<" ">>, <<"a">>, <<"b","b","b">>, FENCE, FENCE \o <<"p","y">>,
      run_of("c", ChunkLimit + 1) }

RECURSIVE join_lines(_)
join_lines(lines) ==
    IF Len(lines) = 1 THEN lines[1]
    ELSE lines[1] \o NEWLINE \o join_lines(Tail(lines))

ChunkTexts ==
    { join_lines(ls) : ls \in UNION { [1..n -> ChunkLines] : n \in 1..MaxLines } }

\* await send_long_message(message, text, max_length), applied to one text
\* in a behaviour
SendLong(text) ==
    /\ gate = NoAnswer
    /\ gate' = [outcome |-> "sent_long", text |-> text,
                sent |-> chunks_sent(send_long_message(text, ChunkLimit))]
    /\ UNCHANGED << conversation_histories, user_topics, now, last, users_db,
                    jobs, job_queue, unfinished_tasks, wk,
                    bot_data >>

InitChunk ==
    InitWith({}, 0, FALSE)

NextChunk ==
    \E text \in ChunkTexts : SendLong(text)

ChunkSpec ==
    InitChunk /\ [][NextChunk]_vars

\* C32: for a text longer than the limit, every chunk send_long_message
\* sends has at most max_length characters.
C32_ChunksWithinLimit ==
    (gate.outcome = "sent_long" /\ Len(gate.text) > ChunkLimit)
    => \A i \in 1..Len(gate.sent) : Len(gate.sent[i]) <= ChunkLimit

\* The number of lines of a text that open or close a fence
fence_lines(text) ==
    Cardinality({ i \in 1..Len(split_lines(text)) :
                    is_fence_line(split_lines(text)[i]) })

\* C33: when the text has an even number of fence lines, every chunk sent
\* for it has an even number of fence lines.
C33_ChunksCloseTheirFences ==
    (/\ gate.outcome = "sent_long"
     /\ Len(gate.text) > ChunkLimit
     /\ fence_lines(gate.text) % 2 = 0)
    => \A i \in 1..Len(gate.sent) : fence_lines(gate.sent[i]) % 2 = 0

---------------------------------------------------------------------------
(* JobSpec: the prompt in the history over the attempts of a job            *)

\* The stored user turns of a user that hold the given content
prompt_turns(user_id, content) ==
    { i \in 1..Len(Stored(user_id)) :
        Stored(user_id)[i].role = "user" /\ Stored(user_id)[i].content = content }

\* C34: the prompt of a job without image-generation that a worker has
\* taken up is stored as a user turn exactly once, after any number of
\* attempts and whether the job succeeds or fails.
C34_PromptStoredOnce ==
    \A w \in Workers :
        (/\ wk[w].job # 0
         /\ "image_generation" \notin jobs[wk[w].job].tools
         /\ jobs[wk[w].job].status \in { "Executing", "Completed", "Failed" })
        => Cardinality(prompt_turns(jobs[wk[w].job].user_id,
                                    jobs[wk[w].job].prompt)) = 1

\* C35: on every attempt the history handed to the completion call does not
\* hold the job's prompt as a user turn.
C35_HistoryWithoutOwnPrompt ==
    \A w \in Workers :
        (wk[w].job # 0 /\ wk[w].pc = "to_thread")
        => [role |-> "user", content |-> jobs[wk[w].job].prompt]
               \notin Range(wk[w].history)

\* C36: when the append of the job's prompt on this pass reset the user's
\* context, the history handed to the completion call holds no message
\* stored before the reset: nothing but turns of the prompt itself.
C36_HistoryAfterResetIsFresh ==
    \A w \in Workers :
        (/\ wk[w].job # 0
         /\ wk[w].pc = "to_thread"
         /\ wk[w].context_reset_message # None)
        => Range(wk[w].history)
               \subseteq { [role |-> "user", content |-> jobs[wk[w].job].prompt] }

---------------------------------------------------------------------------
(* QuotaSpec: image jobs of one user on the free plan, in the pool          *)

\* The users row of a user on the free plan who has used some of the day's
\* images
FreeRows ==
    { [plan_name |-> "free", daily_images_used |-> i, daily_tokens_used |-> 0] :
        i \in 0..FREE_DAILY_IMAGES }

InitQuota ==
    \E row \in FreeRows :
        /\ conversation_histories = EmptyDict
        /\ user_topics = EmptyDict
        /\ now = 0
        /\ last = NoCall
        /\ users_db = [u \in Users |-> IF u \in JobUsers THEN row ELSE NewUser]
        /\ jobs = << >>
        /\ job_queue = << >>
        /\ unfinished_tasks = 0
        /\ wk = [w \in PoolWorkers |-> IdleWorker]
        /\ gate = NoAnswer
        /\ bot_data = NoModes

\* A message of a user in image mode: queue_job_handler with the image tool
AdmitImage(users, prompts) ==
    \E u \in users, text \in prompts :
        Enqueue(u, text, {"image_generation"}, TRUE, FALSE)

NextQuota ==
    \/ Len(jobs) < MaxJobs /\ AdmitImage(JobUsers, PoolPrompts)
    \/ \E w \in Workers : Claim(w)
    \/ \E w \in Workers : Returns(w, StrResult(R_png))
    \/ \E w \in Workers : ReplyDelivered(w)

QuotaSpec ==
    InitQuota /\ [][NextQuota]_vars

\* C37: the image counter of a user on a plan with a finite daily image
\* limit never exceeds the limit, however admissions and completions of the
\* user's image jobs interleave.
C37_ImageCounterWithinLimit ==
    \A u \in Users :
        plan_of(users_db[u].plan_name).daily_images # UNLIMITED
        => users_db[u].daily_images_used
               <= plan_of(users_db[u].plan_name).daily_images

---------------------------------------------------------------------------
(* CtxSpec: the append after a manual clear                                 *)

\* The last call was a user-role append for the user the call before it
\* cleared
AppendAfterClear ==
    /\ last.op = "append"
    /\ last.role = "user"
    /\ last.prev_op = "clear"
    /\ last.prev_user = last.user_id

\* C38: after clear_user_context the user has no stored message and no
\* tracked keyword; the user-role append that follows returns no
\* automatic-reset notification, returns a notification only for an explicit
\* reset phrase, and leaves exactly one stored message.
C38_FreshStartAfterClear ==
    /\ last.op = "clear"
       => /\ Stored(last.user_id) = << >>
          /\ topics_get(user_topics, last.user_id) = {}
    /\ AppendAfterClear
       => /\ last.before = << >>
          /\ last.topics_before = {}
          /\ last.ret # AUTOMATIC_RESET_MESSAGE
          /\ (last.ret # None) = detect_explicit_topic_change(last.content)
          /\ Len(Stored(last.user_id)) = 1

\* A turn with keywords and without a reset phrase was appended right after
\* a clear
C38_Witness ==
    /\ AppendAfterClear
    /\ last.new_keywords # {}
    /\ last.ret = None
    /\ Len(Stored(last.user_id)) = 1

---------------------------------------------------------------------------
(* ModeSpec: the mode sets of context.bot_data                              *)

Modes ==
    { "image", "code", "websearch" }

mode_key(mode) ==
    IF mode = "image" THEN "image_mode_users"
    ELSE IF mode = "code" THEN "code_mode_users"
    ELSE "websearch_mode_users"

\* toggle_mode_handler for modes:toggle:<mode>: off when on; else the other
\* two modes are switched off and this one on
ToggleMode(user_id, mode) ==
    /\ bot_data' =
          IF user_id \in bot_data[mode_key(mode)]
          THEN [bot_data EXCEPT ![mode_key(mode)] = @ \ { user_id }]
          ELSE [k \in DOMAIN bot_data |->
                   IF k = mode_key(mode) THEN bot_data[k] \cup { user_id }
                   ELSE bot_data[k] \ { user_id }]
    /\ UNCHANGED << conversation_histories, user_topics, now, last, users_db,
                    jobs, job_queue, unfinished_tasks, wk, gate >>

\* imagemode_handler (/imagemode): toggles membership of image_mode_users
ImageMode(user_id) ==
    /\ bot_data' =
          IF user_id \in bot_data.image_mode_users
          THEN [bot_data EXCEPT !.image_mode_users = @ \ { user_id }]
          ELSE [bot_data EXCEPT !.image_mode_users = @ \cup { user_id }]
    /\ UNCHANGED << conversation_histories, user_topics, now, last, users_db,
                    jobs, job_queue, unfinished_tasks, wk, gate >>

\* exit_imagemode_handler (/exit)
ExitImageMode(user_id) ==
    /\ bot_data' = [bot_data EXCEPT !.image_mode_users = @ \ { user_id }]
    /\ UNCHANGED << conversation_histories, user_topics, now, last, users_db,
                    jobs, job_queue, unfinished_tasks, wk, gate >>

\* turn_off_all_modes_handler
TurnOffAll(user_id) ==
    /\ bot_data' = [k \in DOMAIN bot_data |-> bot_data[k] \ { user_id }]
    /\ UNCHANGED << conversation_histories, user_topics, now, last, users_db,
                    jobs, job_queue, unfinished_tasks, wk, gate >>

\* The tools smart_handler passes on for a message of the user: the first
\* mode set, in the order image, code, websearch, that holds the user
smart_tools(user_id) ==
    IF user_id \in bot_data.image_mode_users THEN {"image_generation"}
    ELSE IF user_id \in bot_data.code_mode_users THEN {"code_interpreter"}
    ELSE IF user_id \in bot_data.websearch_mode_users THEN {"web_search"}
    ELSE {"web_search", "code_interpreter"}

\* smart_handler for a text message that is no command
SmartHandler(user_id, text) ==
    Enqueue(user_id, text, smart_tools(user_id), TRUE, FALSE)

ModeJobs ==
    1

InitMode ==
    InitWith({}, 0, FALSE)

NextMode ==
    \/ \E u \in Users, mode \in Modes : ToggleMode(u, mode)
    \/ \E u \in Users : ImageMode(u)
    \/ \E u \in Users : ExitImageMode(u)
    \/ \E u \in Users : TurnOffAll(u)
    \/ Len(jobs) < ModeJobs /\ \E u \in Users, text \in PoolPrompts : SmartHandler(u, text)

ModeSpec ==
    InitMode /\ [][NextMode]_vars

\* The modes whose set holds the user
modes_of(user_id) ==
    { mode \in Modes : user_id \in bot_data[mode_key(mode)] }

\* C39: after any mode operations a user is in at most one of the image,
\* code and websearch mode sets.
C39_AtMostOneMode ==
    \A u \in Users : Cardinality(modes_of(u)) <= 1

=============================================================================
